---- MODULE Spec2Model ----
(***************************************************************************)
(* A model of sssp_concept.py: the ordered frontier                        *)
(* (SimplifiedLemma3_3_DataStructure), BaseCase, FindPivots, BMSSP and     *)
(* solve_sssp_directed_real_weights.                                       *)
(*                                                                         *)
(* Numbers.  Edge weights are floats with integral values (0.0, 1.0, ...). *)
(* A float q that is a sum of such weights is modelled by the integer 2*q, *)
(* and the float q + 1e-12 (the only off-grid values the code makes, lines *)
(* 146 and 528) by 2*q + 1.  float('inf') is Inf.  None is NoneVal.        *)
(*                                                                         *)
(* Iteration order.  Python sets of small non-negative ints iterate in     *)
(* ascending order and dicts in insertion order; a bucket of the frontier  *)
(* is therefore a sequence, and set loops run in ascending order.          *)
(***************************************************************************)
EXTENDS Integers, Sequences, FiniteSets, TLC

\* float('inf')
Inf == 1000000
\* None (pred of a vertex without predecessor)
NoneVal == -2
\* 1e-12 on the grid
Eps == 1
\* the model integer of the float 1.0
One == 2
\* 1e-9 on the grid: Bi < 1e-9 iff Bi is 0.0 or 0.0 + 1e-12
TinyBi == 2
\* x + 1e-12 == x in double arithmetic from 16384.0 on
AbsorbFrom == 32768

Max2(a, b) == IF a >= b THEN a ELSE b
Min2(a, b) == IF a <= b THEN a ELSE b

\* float addition where one operand may be inf
\* an addition that drops its second operand: new_dist = d_hat[u]
FAdd_drops_weight(a, b) == IF a = Inf \/ b = Inf THEN Inf ELSE a

FAdd(a, b) == IF a = Inf \/ b = Inf THEN Inf ELSE a + b

\* x + 1e-12 in double arithmetic
AddEps(x) == IF x = Inf \/ x >= AbsorbFrom THEN x ELSE x + Eps

EmptyFn == [z \in {} |-> 0]

SetMax(S) == CHOOSE x \in S : \A y \in S : y <= x
SetMin(S) == CHOOSE x \in S : \A y \in S : x <= y

RECURSIVE SetToSeq(_)
\* the elements of a set of ints in ascending order
SetToSeq(S) ==
  IF S = {} THEN <<>>
  ELSE LET m == SetMin(S) IN <<m>> \o SetToSeq(S \ {m})

SeqToSet(s) == {s[i] : i \in 1..Len(s)}

(***************************************************************************)
(* SimplifiedLemma3_3_DataStructure                                        *)
(***************************************************************************)

\* __init__
NewD(M, B) ==
  [M |-> Max2(1, M), B |-> B, values |-> <<>>,
   value_to_keys |-> EmptyFn, key_to_value |-> EmptyFn]

\* bisect.insort(values, value): insert after the entries <= value
Insort(values, value) ==
  LET i == Cardinality({j \in 1..Len(values) : values[j] <= value})
  IN SubSeq(values, 1, i) \o <<value>> \o SubSeq(values, i + 1, Len(values))

\* bisect.bisect_left(values, value), as a 1-based position
BisectLeft(values, value) ==
  Cardinality({j \in 1..Len(values) : values[j] < value}) + 1

\* the keys of a bucket (a dict key -> (alpha, pred)), in insertion order
BucketKeys(bucket) == [i \in 1..Len(bucket) |-> bucket[i].key]

BucketHas(bucket, key) == \E i \in 1..Len(bucket) : bucket[i].key = key

BucketGet(bucket, key) ==
  bucket[CHOOSE i \in 1..Len(bucket) : bucket[i].key = key]

\* bucket[key] = (alpha, pred): in place when the key is there, else appended
BucketSet(bucket, key, alpha, p) ==
  IF BucketHas(bucket, key)
  THEN [i \in 1..Len(bucket) |->
          IF bucket[i].key = key
          THEN [key |-> key, alpha |-> alpha, pred |-> p] ELSE bucket[i]]
  ELSE Append(bucket, [key |-> key, alpha |-> alpha, pred |-> p])

\* del bucket[key]
BucketDel(bucket, key) == SelectSeq(bucket, LAMBDA e : e.key # key)

\* remove one key of a function (dict.pop / del)
FnDel(f, x) == [y \in (DOMAIN f) \ {x} |-> f[y]]

AddToValueBucket(d, value, key, alpha, p) ==
  LET isNew == value \notin DOMAIN d.value_to_keys
      vals == IF isNew THEN Insort(d.values, value) ELSE d.values
      old == IF isNew THEN <<>> ELSE d.value_to_keys[value]
  IN [d EXCEPT !.values = vals,
               !.value_to_keys = (value :> BucketSet(old, key, alpha, p)) @@ d.value_to_keys,
               !.key_to_value = (key :> value) @@ d.key_to_value]

\* _remove_key without lines 87-91: the value of an emptied bucket stays listed
RemoveKey_keeps_value(d, key) ==
  IF key \notin DOMAIN d.key_to_value THEN d
  ELSE
    LET old_value == d.key_to_value[key]
        k2v == FnDel(d.key_to_value, key)
        hasMap == old_value \in DOMAIN d.value_to_keys
        valmap == IF hasMap THEN d.value_to_keys[old_value] ELSE <<>>
    IN IF hasMap /\ BucketHas(valmap, key)
       THEN LET nb == BucketDel(valmap, key)
            IN IF nb = <<>>
               THEN [d EXCEPT !.key_to_value = k2v,
                              !.value_to_keys = FnDel(d.value_to_keys, old_value)]
               ELSE [d EXCEPT !.key_to_value = k2v,
                              !.value_to_keys = (old_value :> nb) @@ d.value_to_keys]
       ELSE [d EXCEPT !.key_to_value = k2v]

RemoveKey(d, key) ==
  IF key \notin DOMAIN d.key_to_value THEN d
  ELSE
    LET old_value == d.key_to_value[key]
        k2v == FnDel(d.key_to_value, key)
        hasMap == old_value \in DOMAIN d.value_to_keys
        valmap == IF hasMap THEN d.value_to_keys[old_value] ELSE <<>>
    IN IF hasMap /\ BucketHas(valmap, key)
       THEN LET nb == BucketDel(valmap, key)
            IN IF nb = <<>>
               THEN LET idx == BisectLeft(d.values, old_value)
                        vals == IF idx <= Len(d.values) /\ d.values[idx] = old_value
                                THEN SubSeq(d.values, 1, idx - 1)
                                       \o SubSeq(d.values, idx + 1, Len(d.values))
                                ELSE d.values
                    IN [d EXCEPT !.key_to_value = k2v,
                                 !.value_to_keys = FnDel(d.value_to_keys, old_value),
                                 !.values = vals]
               ELSE [d EXCEPT !.key_to_value = k2v,
                              !.value_to_keys = (old_value :> nb) @@ d.value_to_keys]
       ELSE [d EXCEPT !.key_to_value = k2v]

\* the stored (alpha, pred) of a key that is present
StoredEntry(d, key) == BucketGet(d.value_to_keys[d.key_to_value[key]], key)

\* Insert compares an int with None (TypeError) when the key is stored with
\* the same value and alpha and one of the two predecessors is None
InsertRaises(d, key, value, alpha, p) ==
  /\ key \in DOMAIN d.key_to_value
  /\ value = d.key_to_value[key]
  /\ alpha = StoredEntry(d, key).alpha
  /\ (p = NoneVal \/ StoredEntry(d, key).pred = NoneVal)

\* Insert deciding on the value alone: line 100 and the elif of 101-105 dropped
InsertIgnored_value_only(d, key, value, alpha, p) ==
  /\ key \in DOMAIN d.key_to_value
  /\ value >= d.key_to_value[key]

\* Insert with ">" for ">=" at line 104: an equal triple is stored again
InsertIgnored_strict_pred(d, key, value, alpha, p) ==
  /\ key \in DOMAIN d.key_to_value
  /\ LET old_value == d.key_to_value[key]
         old == BucketGet(d.value_to_keys[d.key_to_value[key]], key)
     IN \/ value > old_value
        \/ /\ value = old_value
           /\ \/ alpha > old.alpha
              \/ alpha = old.alpha /\ p > old.pred

\* Insert without the predecessor tie-break of line 104
InsertIgnored_no_pred(d, key, value, alpha, p) ==
  /\ key \in DOMAIN d.key_to_value
  /\ LET old_value == d.key_to_value[key]
         old == BucketGet(d.value_to_keys[d.key_to_value[key]], key)
     IN \/ value > old_value
        \/ value = old_value /\ alpha >= old.alpha

\* the early returns of Insert: the new triple is not better
InsertIgnored(d, key, value, alpha, p) ==
  /\ key \in DOMAIN d.key_to_value
  /\ LET old_value == d.key_to_value[key]
         old == StoredEntry(d, key)
     IN \/ value > old_value
        \/ /\ value = old_value
           /\ \/ alpha > old.alpha
              \/ alpha = old.alpha /\ p >= old.pred

Insert(d, key, value, alpha, p) ==
  IF InsertRaises(d, key, value, alpha, p) \/ InsertIgnored(d, key, value, alpha, p)
  THEN d
  ELSE AddToValueBucket(RemoveKey(d, key), value, key, alpha, p)

RECURSIVE BatchPrepend(_, _)
\* items: a sequence of <<key, value, alpha, pred>>; an exception ends the loop
BatchPrepend(d, items) ==
  IF items = <<>> THEN d
  ELSE LET it == Head(items)
       IN IF InsertRaises(d, it[1], it[2], it[3], it[4]) THEN d
          ELSE BatchPrepend(Insert(d, it[1], it[2], it[3], it[4]), Tail(items))

RECURSIVE BatchPrependRaises(_, _)
BatchPrependRaises(d, items) ==
  IF items = <<>> THEN FALSE
  ELSE LET it == Head(items)
       IN \/ InsertRaises(d, it[1], it[2], it[3], it[4])
          \/ BatchPrependRaises(Insert(d, it[1], it[2], it[3], it[4]), Tail(items))

RECURSIVE PullKeys(_, _, _, _, _)
\* the for loop of Pull over the keys of one bucket; st = [bucket, k2v, S, pulled]
PullKeys(keys, M, smallest_value, st, i) ==
  IF i > Len(keys) \/ Cardinality(st.S) >= M THEN st
  ELSE PullKeys(keys, M, smallest_value,
                [bucket |-> BucketDel(st.bucket, keys[i]),
                 k2v |-> FnDel(st.k2v, keys[i]),
                 S |-> st.S \cup {keys[i]},
                 pulled |-> Append(st.pulled, smallest_value)],
                i + 1)

RECURSIVE PullLoop(_, _, _)
\* the while loop of Pull; returns [d, S, pulled]
PullLoop(d, S, pulled) ==
  IF d.values = <<>> \/ Cardinality(S) >= d.M THEN [d |-> d, S |-> S, pulled |-> pulled]
  ELSE
    LET smallest_value == d.values[1]
        bucket == IF smallest_value \in DOMAIN d.value_to_keys
                  THEN d.value_to_keys[smallest_value] ELSE <<>>
        st == PullKeys(BucketKeys(bucket), d.M, smallest_value,
                       [bucket |-> bucket, k2v |-> d.key_to_value, S |-> S, pulled |-> pulled], 1)
        d1 == IF st.bucket = <<>>
              THEN [d EXCEPT !.key_to_value = st.k2v,
                             !.value_to_keys = FnDel(d.value_to_keys, smallest_value),
                             !.values = Tail(d.values)]
              ELSE [d EXCEPT !.key_to_value = st.k2v,
                             !.value_to_keys = (smallest_value :> st.bucket) @@ d.value_to_keys]
    IN PullLoop(d1, st.S, st.pulled)

\* Pull with min for max at line 146
Pull_min_pulled(d) ==
  LET r == PullLoop(d, {}, <<>>)
      x == IF r.d.values # <<>> THEN r.d.values[1]
           ELSE IF r.pulled # <<>> THEN AddEps(SetMin(SeqToSet(r.pulled)))
           ELSE d.B
  IN [x |-> x, S |-> r.S, d |-> r.d]

\* Pull: [x, S, d] = the boundary, the pulled keys and the structure afterwards
Pull(d) ==
  LET r == PullLoop(d, {}, <<>>)
      x == IF r.d.values # <<>> THEN r.d.values[1]
           ELSE IF r.pulled # <<>> THEN AddEps(SetMax(SeqToSet(r.pulled)))
           ELSE d.B
  IN [x |-> x, S |-> r.S, d |-> r.d]

is_empty(d) == Cardinality(DOMAIN d.key_to_value) = 0


(***************************************************************************)
(* Program state                                                           *)
(***************************************************************************)
VARIABLES
  pc,           \* "idle" | "running" | "done" | "error": where solve is
  n_val,        \* argument n_val of solve
  graph,        \* the adjacency built from edges: <<u, v>> -> weight
  source,       \* argument source of solve
  d_hat, pred, path_alpha,          \* the global per-vertex dicts
  k_param, t_param, N_vertices,     \* the global parameters
  stack,        \* the active BMSSP calls, innermost last
  ret,          \* the value returned by the call that returned last
  result,       \* the dict returned by solve
  D,            \* a frontier object driven directly (FrontierSpec)
  dOp           \* the last operation on D and what it returned

vars == <<pc, n_val, graph, source, d_hat, pred, path_alpha,
          k_param, t_param, N_vertices, stack, ret, result, D, dOp>>

solveVars == <<pc, n_val, graph, source, d_hat, pred, path_alpha,
               k_param, t_param, N_vertices, stack, ret, result>>

\* the heuristic flags, as the module sets them
HEURISTICS_ENABLED == TRUE
HEURISTICS_SEEDING == TRUE
HEURISTICS_RELAX_INSERT == TRUE
HEURISTICS_LARGE_M == TRUE
HEURISTICS_BOUNDARY_EQUALITY == TRUE
HEURISTICS_ADJUST_BI == TRUE

\* max(64, ...) of the large-M heuristic
LargeM == 64
\* max_iterations = max(1000, N_vertices * 10)
MinMaxIterations == 1000
IterationsPerVertex == 10
\* stall_count > 5 breaks the loop
StallLimit == 5

RECURSIVE Pow2(_)
Pow2(e) == IF e <= 0 THEN 1 ELSE 2 * Pow2(e - 1)

\* dict.get(key, default)
Get(f, x, default) == IF x \in DOMAIN f THEN f[x] ELSE default

\* the neighbours of u in graph[u], in ascending order
Nbrs(g, u) == SetToSeq({v \in {e[2] : e \in DOMAIN g} : <<u, v>> \in DOMAIN g})

\* u in graph
InGraph(g, u) == \E e \in DOMAIN g : e[1] = u

\* a relaxation that records the path but not the distance (line 565 missing)
SetVertex_keeps_distance(st, v, nd, na, u) ==
  [st EXCEPT !.a = (v :> na) @@ st.a, !.p = (v :> u) @@ st.p]

\* d_hat[v], path_alpha[v], pred[v] = nd, na, u
SetVertex(st, v, nd, na, u) ==
  [st EXCEPT !.d = (v :> nd) @@ st.d, !.a = (v :> na) @@ st.a, !.p = (v :> u) @@ st.p]

\* "u < current_v_pred" with current_v_pred None raises TypeError; the
\* comparison is reached only after both equalities
CompareRaises(new_dist, new_alpha, cur_d, cur_alpha, cur_pred) ==
  new_dist = cur_d /\ new_alpha = cur_alpha /\ cur_pred = NoneVal

(***************************************************************************)
(* BaseCase                                                                *)
(***************************************************************************)
TupLess(a, b) ==
  \/ a[1] < b[1]
  \/ a[1] = b[1] /\ a[2] < b[2]
  \/ a[1] = b[1] /\ a[2] = b[2] /\ a[3] < b[3]
  \/ a[1] = b[1] /\ a[2] = b[2] /\ a[3] = b[3] /\ a[4] < b[4]

\* the entry heapq.heappop returns: the smallest tuple of the heap
HeapMin(H) == CHOOSE e \in H : \A f \in H \ {e} : TupLess(e, f)

NoneToMinus1(p) == IF p = NoneVal THEN -1 ELSE p

\* the heap BaseCase is seeded with
BaseCaseSeed(st, S) ==
  {<<Get(st.d, x, Inf), Get(st.a, x, Inf), x, NoneToMinus1(Get(st.p, x, NoneVal))>> : x \in S}

BaseCaseUpdateNeeded(new_dist, new_alpha, u, cur_d, cur_alpha, cur_pred) ==
  \/ new_dist < cur_d
  \/ /\ new_dist = cur_d
     /\ \/ new_alpha < cur_alpha
        \/ new_alpha = cur_alpha /\ u < cur_pred

RECURSIVE BaseCaseRelax(_, _, _, _, _, _, _, _)
\* the for loop over graph[u]; r = [st, H, err]
BaseCaseRelax(g, B, u, current_d, current_alpha, nbrs, i, r) ==
  IF i > Len(nbrs) \/ r.err THEN r
  ELSE
    LET v == nbrs[i]
        new_dist == FAdd(current_d, g[<<u, v>>])
        new_alpha == FAdd(current_alpha, 1)
        cur_d == Get(r.st.d, v, Inf)
        cur_alpha == Get(r.st.a, v, Inf)
        cur_pred == Get(r.st.p, v, Inf)
    IN IF ~(new_dist < B) THEN BaseCaseRelax(g, B, u, current_d, current_alpha, nbrs, i + 1, r)
       ELSE IF CompareRaises(new_dist, new_alpha, cur_d, cur_alpha, cur_pred)
       THEN [r EXCEPT !.err = TRUE]
       ELSE IF BaseCaseUpdateNeeded(new_dist, new_alpha, u, cur_d, cur_alpha, cur_pred)
       THEN BaseCaseRelax(g, B, u, current_d, current_alpha, nbrs, i + 1,
                          [r EXCEPT !.st = SetVertex(r.st, v, new_dist, new_alpha, u),
                                    !.H = r.H \cup {<<new_dist, new_alpha, v, u>>}])
       ELSE BaseCaseRelax(g, B, u, current_d, current_alpha, nbrs, i + 1, r)

\* one iteration of the while loop of BaseCase; r = [st, H, U0, candidates, err]
BaseCaseIter(g, B, st, H, U0, candidates) ==
  LET e == HeapMin(H)
      H1 == H \ {e}
      current_d == e[1]
      current_alpha == e[2]
      u == e[3]
      current_pred_u == e[4]
      actual_pred_u == NoneToMinus1(Get(st.p, u, NoneVal))
      du == Get(st.d, u, Inf)
      au == Get(st.a, u, Inf)
      stale == \/ current_d > du
               \/ current_d = du /\ current_alpha > au
               \/ current_d = du /\ current_alpha = au /\ current_pred_u > actual_pred_u
  IN IF stale \/ u \in U0
     THEN [st |-> st, H |-> H1, U0 |-> U0, candidates |-> candidates, err |-> FALSE]
     ELSE LET r == BaseCaseRelax(g, B, u, current_d, current_alpha, Nbrs(g, u), 1,
                                 [st |-> st, H |-> H1, err |-> FALSE])
          IN [st |-> r.st, H |-> r.H, U0 |-> U0 \cup {u},
              candidates |-> (u :> current_d) @@ candidates, err |-> r.err]

RECURSIVE SortedValues(_, _)
\* sorted(candidates.values()), over the keys in keys
SortedValues(candidates, keys) ==
  IF keys = {} THEN <<>>
  ELSE LET m == CHOOSE x \in keys : \A y \in keys : candidates[x] <= candidates[y]
       IN <<candidates[m]>> \o SortedValues(candidates, keys \ {m})

\* BaseCase with "<=" for "<" in the filter of line 272
BaseCaseResult_inclusive(B, U0, candidates, k) ==
  IF Cardinality(U0) <= k THEN [B |-> B, U |-> U0]
  ELSE LET sorted_distances == SortedValues(candidates, DOMAIN candidates)
           B_prime == IF Len(sorted_distances) > k THEN sorted_distances[k + 1]
                      ELSE IF sorted_distances # <<>> THEN sorted_distances[Len(sorted_distances)]
                      ELSE B
       IN [B |-> B_prime, U |-> {v \in DOMAIN candidates : candidates[v] <= B_prime}]

\* BaseCase with the k-th smallest distance for the (k+1)-th at line 264
BaseCaseResult_kth(B, U0, candidates, k) ==
  IF Cardinality(U0) <= k THEN [B |-> B, U |-> U0]
  ELSE LET sorted_distances == SortedValues(candidates, DOMAIN candidates)
           B_prime == IF Len(sorted_distances) > k THEN sorted_distances[k]
                      ELSE IF sorted_distances # <<>> THEN sorted_distances[Len(sorted_distances)]
                      ELSE B
       IN [B |-> B_prime, U |-> {v \in DOMAIN candidates : candidates[v] < B_prime}]

\* lines 252-274: [B, U]
BaseCaseResult(B, U0, candidates, k) ==
  IF Cardinality(U0) <= k THEN [B |-> B, U |-> U0]
  ELSE LET sorted_distances == SortedValues(candidates, DOMAIN candidates)
           B_prime == IF Len(sorted_distances) > k THEN sorted_distances[k + 1]
                      ELSE IF sorted_distances # <<>> THEN sorted_distances[Len(sorted_distances)]
                      ELSE B
       IN [B |-> B_prime, U |-> {v \in DOMAIN candidates : candidates[v] < B_prime}]


(***************************************************************************)
(* FindPivots                                                              *)
(***************************************************************************)
FindPivotsUpdateNeeded(new_dist, new_alpha, u, cur_d, cur_alpha, cur_pred) ==
  \/ new_dist < cur_d
  \/ /\ new_dist = cur_d
     /\ \/ new_alpha < cur_alpha
        \/ new_alpha = cur_alpha /\ u < cur_pred

\* lines 347-350
WithinBound(dv, B) ==
  IF HEURISTICS_ENABLED /\ HEURISTICS_BOUNDARY_EQUALITY THEN dv <= B ELSE dv < B

RECURSIVE FindPivotsRelax(_, _, _, _, _, _)
\* the for loop over graph[u]; r = [st, next_Wi, W, err]
FindPivotsRelax(g, B, u, nbrs, i, r) ==
  IF i > Len(nbrs) \/ r.err THEN r
  ELSE
    LET v == nbrs[i]
        new_dist == FAdd(r.st.d[u], g[<<u, v>>])
        new_alpha == FAdd(r.st.a[u], 1)
        cur_d == Get(r.st.d, v, Inf)
        cur_alpha == Get(r.st.a, v, Inf)
        cur_pred == Get(r.st.p, v, Inf)
    IN IF CompareRaises(new_dist, new_alpha, cur_d, cur_alpha, cur_pred)
       THEN [r EXCEPT !.err = TRUE]
       ELSE
         LET st1 == IF FindPivotsUpdateNeeded(new_dist, new_alpha, u, cur_d, cur_alpha, cur_pred)
                    THEN SetVertex(r.st, v, new_dist, new_alpha, u) ELSE r.st
             within == WithinBound(Get(st1.d, v, Inf), B)
         IN FindPivotsRelax(g, B, u, nbrs, i + 1,
              [r EXCEPT !.st = st1,
                        !.next_Wi = IF within THEN r.next_Wi \cup {v} ELSE r.next_Wi,
                        !.W = IF within THEN r.W \cup {v} ELSE r.W])

RECURSIVE FindPivotsStep(_, _, _, _, _)
\* one relaxation round: the for loop over Wi_current_step (a sequence)
FindPivotsStep(g, B, us, i, r) ==
  IF i > Len(us) \/ r.err THEN r
  ELSE FindPivotsStep(g, B, us, i + 1,
         IF InGraph(g, us[i]) THEN FindPivotsRelax(g, B, us[i], Nbrs(g, us[i]), 1, r) ELSE r)

\* F_adj: p -> the list of v in W (ascending) with pred[v] = p, p in W or S
ForestAdj(st, S, W) ==
  [p \in W \cup S |->
     SetToSeq({v \in W : Get(st.p, v, NoneVal) # NoneVal /\ Get(st.p, v, NoneVal) = p})]

RECURSIVE dfs_calculate_subtree_size(_, _, _)
RECURSIVE DfsChildren(_, _, _, _)
\* [size, visited]: visited is the visited set after the call
dfs_calculate_subtree_size(F, current_node, visited) ==
  IF current_node \in visited THEN [size |-> 0, visited |-> visited]
  ELSE DfsChildren(F, Get(F, current_node, <<>>), 1,
                   [size |-> 1, visited |-> visited \cup {current_node}])

DfsChildren(F, children, i, acc) ==
  IF i > Len(children) THEN acc
  ELSE LET c == dfs_calculate_subtree_size(F, children[i], acc.visited)
       IN DfsChildren(F, children, i + 1,
                      [size |-> acc.size + c.size, visited |-> c.visited])

RECURSIVE SharedVisitedPivots(_, _, _, _, _, _)
\* the loop over S with one visited set for all roots; roots is a sequence
SharedVisitedPivots(F, roots, i, k, visited, P) ==
  IF i > Len(roots) THEN P
  ELSE LET c == dfs_calculate_subtree_size(F, roots[i], visited)
       IN SharedVisitedPivots(F, roots, i + 1, k, c.visited,
                              IF c.size >= k THEN P \cup {roots[i]} ELSE P)

\* FindPivots with the visited set shared by the traversals of all roots
FindPivotsPivots_shared_visited(st, S, W, k) ==
  SharedVisitedPivots(ForestAdj(st, S, W), SetToSeq(S \cap W), 1, k, {}, {})

\* lines 370-425: the pivots when the k rounds completed
FindPivotsPivots(st, S, W, k) ==
  LET F == ForestAdj(st, S, W)
  IN {s_root \in S \cap W : dfs_calculate_subtree_size(F, s_root, {}).size >= k}

(***************************************************************************)
(* BMSSP                                                                   *)
(***************************************************************************)
\* a relaxation that overwrites without comparing (lines 555-562 dropped)
BMSSPUpdateNeeded_always(new_dist, new_alpha, u, cur_d, cur_alpha, cur_pred) == TRUE

BMSSPUpdateNeeded(new_dist, new_alpha, u, cur_d, cur_alpha, cur_pred) ==
  \/ new_dist < cur_d
  \/ /\ new_dist = cur_d
     /\ \/ new_alpha < cur_alpha
        \/ new_alpha = cur_alpha /\ u < cur_pred

\* lines 444-447
MParam(l, t) ==
  IF HEURISTICS_ENABLED /\ HEURISTICS_LARGE_M
  THEN IF (l - 1) * t >= 0 THEN Max2(LargeM, Pow2((l - 1) * t)) ELSE LargeM
  ELSE IF (l - 1) * t >= 0 THEN Pow2((l - 1) * t) ELSE 1

RECURSIVE InsertPivots(_, _, _, _)
\* lines 451-453; r = [D, err]
InsertPivots(st, ps, i, r) ==
  IF i > Len(ps) \/ r.err THEN r
  ELSE LET x == ps[i]
           px == Get(st.p, x, -1)
       IN IF InsertRaises(r.D, x, st.d[x], st.a[x], px) THEN [r EXCEPT !.err = TRUE]
          ELSE InsertPivots(st, ps, i + 1, [r EXCEPT !.D = Insert(r.D, x, st.d[x], st.a[x], px)])

RECURSIVE SeedNbrs(_, _, _, _)
\* lines 460-465, the loop over graph[w]
SeedNbrs(st, nbrs, i, r) ==
  IF i > Len(nbrs) \/ r.err THEN r
  ELSE LET v_nb == nbrs[i]
           dv == Get(st.d, v_nb, Inf)
           av == Get(st.a, v_nb, 0)
           pv == Get(st.p, v_nb, -1)
       IN IF v_nb \notin DOMAIN r.D.key_to_value /\ dv # Inf
          THEN IF InsertRaises(r.D, v_nb, dv, av, pv) THEN [r EXCEPT !.err = TRUE]
               ELSE SeedNbrs(st, nbrs, i + 1, [r EXCEPT !.D = Insert(r.D, v_nb, dv, av, pv)])
          ELSE SeedNbrs(st, nbrs, i + 1, r)

RECURSIVE SeedFromW(_, _, _, _, _)
\* lines 456-465, the loop over list(W)
SeedFromW(g, st, ws, i, r) ==
  IF i > Len(ws) \/ r.err THEN r
  ELSE SeedFromW(g, st, ws, i + 1,
         IF InGraph(g, ws[i]) THEN SeedNbrs(st, Nbrs(g, ws[i]), 1, r) ELSE r)

\* lines 448-466: the frontier a frame starts with; [D, err]
InitialD(g, st, l, t, B, P, W) ==
  LET r0 == InsertPivots(st, SetToSeq(P), 1, [D |-> NewD(MParam(l, t), B), err |-> FALSE])
  IN IF HEURISTICS_ENABLED /\ HEURISTICS_SEEDING
     THEN SeedFromW(g, st, SetToSeq(W), 1, r0) ELSE r0

\* lines 516-529: the bound handed to the recursive call
AdjustBi(g, st, Bi, Si) ==
  IF HEURISTICS_ENABLED /\ HEURISTICS_ADJUST_BI /\ Bi < TinyBi
  THEN LET out == {e \in DOMAIN g : e[1] \in Si}
           pos == {FAdd(Get(st.d, e[1], Inf), g[e]) :
                     e \in {e \in out : /\ FAdd(Get(st.d, e[1], Inf), g[e]) > Get(st.d, e[1], Inf)
                                        /\ FAdd(Get(st.d, e[1], Inf), g[e]) < Inf}}
       IN IF pos # {} THEN SetMin(pos)
          ELSE AddEps(IF Si = {} THEN 0 ELSE SetMax({Get(st.d, u, 0) : u \in Si}))
  ELSE Bi

RECURSIVE BMSSPRelaxNbrs(_, _, _, _, _, _, _, _)
\* lines 546-581, the loop over graph[u_completed]; r = [st, D, K, err]
BMSSPRelaxNbrs(g, B, Bi, B_prime_i, u, nbrs, i, r) ==
  IF i > Len(nbrs) \/ r.err THEN r
  ELSE
    LET v == nbrs[i]
        new_dist == FAdd(r.st.d[u], g[<<u, v>>])
        new_alpha == FAdd(r.st.a[u], 1)
        cur_d == Get(r.st.d, v, Inf)
        cur_alpha == Get(r.st.a, v, Inf)
        cur_pred == Get(r.st.p, v, Inf)
    IN IF CompareRaises(new_dist, new_alpha, cur_d, cur_alpha, cur_pred)
       THEN [r EXCEPT !.err = TRUE]
       ELSE IF BMSSPUpdateNeeded(new_dist, new_alpha, u, cur_d, cur_alpha, cur_pred)
       THEN LET st1 == SetVertex(r.st, v, new_dist, new_alpha, u)
                r1 == IF HEURISTICS_ENABLED /\ HEURISTICS_RELAX_INSERT
                      THEN IF InsertRaises(r.D, v, new_dist, new_alpha, u)
                           THEN [r EXCEPT !.err = TRUE]
                           ELSE [r EXCEPT !.st = st1, !.D = Insert(r.D, v, new_dist, new_alpha, u)]
                      ELSE IF Bi <= new_dist /\ new_dist < B
                      THEN IF InsertRaises(r.D, v, new_dist, new_alpha, u)
                           THEN [r EXCEPT !.err = TRUE]
                           ELSE [r EXCEPT !.st = st1, !.D = Insert(r.D, v, new_dist, new_alpha, u)]
                      ELSE IF B_prime_i <= new_dist /\ new_dist < Bi
                      THEN [r EXCEPT !.st = st1,
                                     !.K = Append(r.K, <<v, new_dist, new_alpha, u>>)]
                      ELSE [r EXCEPT !.st = st1]
            IN BMSSPRelaxNbrs(g, B, Bi, B_prime_i, u, nbrs, i + 1, r1)
       ELSE BMSSPRelaxNbrs(g, B, Bi, B_prime_i, u, nbrs, i + 1, r)

RECURSIVE BMSSPRelax(_, _, _, _, _, _, _)
\* lines 543-581, the loop over Ui
BMSSPRelax(g, B, Bi, B_prime_i, us, i, r) ==
  IF i > Len(us) \/ r.err THEN r
  ELSE BMSSPRelax(g, B, Bi, B_prime_i, us, i + 1,
         IF InGraph(g, us[i])
         THEN BMSSPRelaxNbrs(g, B, Bi, B_prime_i, us[i], Nbrs(g, us[i]), 1, r) ELSE r)

\* lines 588-594: the pulled vertices whose distance is in [B'_i, Bi)
RequeuedSi(st, Si, Bi, B_prime_i) ==
  LET xs == SetToSeq({x \in Si : Get(st.d, x, Inf) >= B_prime_i /\ Get(st.d, x, Inf) < Bi})
  IN [i \in 1..Len(xs) |-> <<xs[i], st.d[xs[i]], st.a[xs[i]], Get(st.p, xs[i], -1)>>]


(***************************************************************************)
(* solve_sssp_directed_real_weights and the call stack                     *)
(***************************************************************************)
\* n_for_log_calc
NForLog(n) == Max2(2, n)

\* max(1, floor(log2(n) ** (1/3))): j <= log2(n)^(1/3) iff 2^(j^3) <= n
KParam(n) ==
  Max2(1, SetMax({j \in 0..3 : Pow2(j * j * j) <= NForLog(n)}))

\* max(1, floor(log2(n) ** (2/3))): the thresholds are 2^sqrt(8), 2^sqrt(27)
TParam(n) ==
  IF NForLog(n) >= 37 THEN 3 ELSE IF NForLog(n) >= 8 THEN 2 ELSE 1

\* ceil(log2(n) / t): the least c with 2^(c*t) >= n (n below 2^30)
LMax(n) ==
  SetMin({c \in 0..NForLog(n) :
            c * TParam(n) >= 30 \/ Pow2(c * TParam(n)) >= NForLog(n)})

\* a call that does not descend: BMSSP(l, Bi, Si) for BMSSP(l - 1, Bi, Si) at line 533
NewFrame_same_level(l, B, S) ==
  [l |-> l + 1, B |-> B, S |-> S, at |-> "enter",
   H |-> {}, U0 |-> {}, candidates |-> EmptyFn,
   W |-> {}, Wi_current_step |-> {}, i |-> 0, P |-> {},
   D |-> [M |-> 1, B |-> B, values |-> <<>>, value_to_keys |-> EmptyFn,
          key_to_value |-> EmptyFn],
   current_U |-> {}, last_B_prime_i |-> B,
   iteration_count |-> 0, stall_count |-> 0, last_Bi |-> NoneVal,
   processed_vertices |-> {}, Bi |-> B, Si |-> {},
   stalled_from |-> [U |-> {}, d |-> EmptyFn]]

\* the local variables of one BMSSP call (and of the BaseCase or FindPivots
\* call it makes); at is the position in the call.  stalled_from is a history
\* record, not a variable of the code: current_U and d_hat as they were at the
\* pull that took stall_count from 0 to 1
NewFrame(l, B, S) ==
  [l |-> l, B |-> B, S |-> S, at |-> "enter",
   H |-> {}, U0 |-> {}, candidates |-> EmptyFn,
   W |-> {}, Wi_current_step |-> {}, i |-> 0, P |-> {},
   D |-> NewD(1, B), current_U |-> {}, last_B_prime_i |-> B,
   iteration_count |-> 0, stall_count |-> 0, last_Bi |-> NoneVal,
   processed_vertices |-> {}, Bi |-> B, Si |-> {},
   stalled_from |-> [U |-> {}, d |-> EmptyFn]]

Top == stack[Len(stack)]
SetTop(f) == [stack EXCEPT ![Len(stack)] = f]
State == [d |-> d_hat, a |-> path_alpha, p |-> pred]

\* the frame returns rv to its caller
ReturnTo(rv) ==
  /\ ret' = rv
  /\ stack' = IF Len(stack) = 1 THEN <<>>
              ELSE [SubSeq(stack, 1, Len(stack) - 1) EXCEPT ![Len(stack) - 1].at = "after"]

Raise ==
  /\ pc' = "error"
  /\ UNCHANGED <<n_val, graph, source, d_hat, pred, path_alpha,
                 k_param, t_param, N_vertices, stack, ret, result>>

\* a clear() that leaves the dict as it was (lines 627-629 missing)
Clear_keeps_entries(dict) == dict

\* dict.clear() (lines 627-629)
Clear(dict) == EmptyFn

\* lines 624-662 for the arguments n and s: the globals are cleared and set
\* again for range(n), the parameters are computed from n
SolveSetUp(n, s) ==
  /\ N_vertices' = n
  /\ d_hat' = (s :> 0) @@ [v \in 0..(n - 1) |-> Inf] @@ Clear(d_hat)
  /\ path_alpha' = (s :> 0) @@ [v \in 0..(n - 1) |-> Inf] @@ Clear(path_alpha)
  /\ pred' = [v \in 0..(n - 1) |-> NoneVal] @@ Clear(pred)
  /\ k_param' = KParam(n)
  /\ t_param' = TParam(n)
  /\ stack' = <<NewFrame(LMax(n), Inf, {s})>>
  /\ pc' = "running"

\* lines 620-667
SolveStart ==
  /\ pc = "idle"
  /\ SolveSetUp(n_val, source)
  /\ UNCHANGED <<n_val, graph, source, ret, result, D, dOp>>

\* lines 433-437 and the set-up of BaseCase (186-199) or FindPivots (307-310)
BMSSPEnter ==
  /\ pc = "running" /\ stack # <<>> /\ Top.at = "enter"
  /\ stack' = SetTop(
       IF Top.l = 0
       THEN [Top EXCEPT !.at = "base", !.H = BaseCaseSeed(State, Top.S)]
       ELSE [Top EXCEPT !.at = "pivots", !.W = Top.S, !.Wi_current_step = Top.S, !.i = 0])
  /\ UNCHANGED <<pc, n_val, graph, source, d_hat, pred, path_alpha,
                 k_param, t_param, N_vertices, ret, result, D, dOp>>

\* one iteration of the while loop of BaseCase (lines 202-250)
BaseCaseStep ==
  /\ pc = "running" /\ stack # <<>> /\ Top.at = "base"
  /\ Top.H # {} /\ Cardinality(Top.U0) < k_param + 1
  /\ LET r == BaseCaseIter(graph, Top.B, State, Top.H, Top.U0, Top.candidates)
     IN IF r.err THEN Raise
        ELSE /\ d_hat' = r.st.d /\ path_alpha' = r.st.a /\ pred' = r.st.p
             /\ stack' = SetTop([Top EXCEPT !.H = r.H, !.U0 = r.U0, !.candidates = r.candidates])
             /\ UNCHANGED <<pc, n_val, graph, source, k_param, t_param, N_vertices, ret, result>>
  /\ UNCHANGED <<D, dOp>>

\* lines 252-274
BaseCaseReturn ==
  /\ pc = "running" /\ stack # <<>> /\ Top.at = "base"
  /\ ~(Top.H # {} /\ Cardinality(Top.U0) < k_param + 1)
  /\ ReturnTo(BaseCaseResult(Top.B, Top.U0, Top.candidates, k_param))
  /\ UNCHANGED <<pc, n_val, graph, source, d_hat, pred, path_alpha,
                 k_param, t_param, N_vertices, result, D, dOp>>

\* a round that relaxes from all of W, not from the vertices of the last round
FindPivotsRound_from_W ==
  /\ pc = "running" /\ stack # <<>> /\ Top.at = "pivots"
  /\ Top.i < k_param
  /\ LET r == FindPivotsStep(graph, Top.B, SetToSeq(Top.W), 1,
                             [st |-> State, next_Wi |-> {}, W |-> Top.W, err |-> FALSE])
     IN IF r.err THEN Raise
        ELSE /\ d_hat' = r.st.d /\ path_alpha' = r.st.a /\ pred' = r.st.p
             /\ stack' = SetTop(
                  IF Cardinality(r.W) > k_param * Cardinality(Top.S)
                  THEN [Top EXCEPT !.W = r.W, !.Wi_current_step = r.next_Wi,
                                   !.P = Top.S, !.at = "init"]
                  ELSE [Top EXCEPT !.W = r.W, !.Wi_current_step = r.next_Wi, !.i = Top.i + 1])
             /\ UNCHANGED <<pc, n_val, graph, source, k_param, t_param, N_vertices, ret, result>>
  /\ UNCHANGED <<D, dOp>>

\* one round of the for loop of FindPivots (lines 314-362)
FindPivotsRound ==
  /\ pc = "running" /\ stack # <<>> /\ Top.at = "pivots"
  /\ Top.i < k_param
  /\ LET r == FindPivotsStep(graph, Top.B, SetToSeq(Top.Wi_current_step), 1,
                             [st |-> State, next_Wi |-> {}, W |-> Top.W, err |-> FALSE])
     IN IF r.err THEN Raise
        ELSE /\ d_hat' = r.st.d /\ path_alpha' = r.st.a /\ pred' = r.st.p
             /\ stack' = SetTop(
                  IF Cardinality(r.W) > k_param * Cardinality(Top.S)
                  THEN [Top EXCEPT !.W = r.W, !.Wi_current_step = r.next_Wi,
                                   !.P = Top.S, !.at = "init"]
                  ELSE [Top EXCEPT !.W = r.W, !.Wi_current_step = r.next_Wi, !.i = Top.i + 1])
             /\ UNCHANGED <<pc, n_val, graph, source, k_param, t_param, N_vertices, ret, result>>
  /\ UNCHANGED <<D, dOp>>

\* lines 364-425: the rounds completed without the early return
FindPivotsFinish ==
  /\ pc = "running" /\ stack # <<>> /\ Top.at = "pivots"
  /\ Top.i >= k_param
  /\ stack' = SetTop([Top EXCEPT !.P = FindPivotsPivots(State, Top.S, Top.W, k_param),
                                 !.at = "init"])
  /\ UNCHANGED <<pc, n_val, graph, source, d_hat, pred, path_alpha,
                 k_param, t_param, N_vertices, ret, result, D, dOp>>

\* max_U_size_for_level
MaxUSize(l) == k_param * Pow2(l * t_param)

\* max_iterations
MaxIterations == Max2(MinMaxIterations, N_vertices * IterationsPerVertex)

\* lines 440-490
BMSSPInit ==
  /\ pc = "running" /\ stack # <<>> /\ Top.at = "init"
  /\ LET r == InitialD(graph, State, Top.l, t_param, Top.B, Top.P, Top.W)
         B_prime_0 == IF Top.P = {} THEN Top.B ELSE SetMin({d_hat[x] : x \in Top.P})
     IN IF r.err THEN Raise
        ELSE /\ stack' = SetTop([Top EXCEPT !.D = r.D, !.current_U = {},
                                            !.last_B_prime_i = B_prime_0,
                                            !.iteration_count = 0, !.last_Bi = NoneVal,
                                            !.stall_count = 0, !.processed_vertices = {},
                                            !.at = "loop"])
             /\ UNCHANGED <<pc, n_val, graph, source, d_hat, pred, path_alpha,
                            k_param, t_param, N_vertices, ret, result>>
  /\ UNCHANGED <<D, dOp>>

\* the condition of the while loop at line 493
LoopCondition(f) == Cardinality(f.current_U) < MaxUSize(f.l) /\ ~is_empty(f.D)

\* the pull loop without "iteration_count += 1" (line 494)
BMSSPPull_no_count ==
  /\ pc = "running" /\ stack # <<>> /\ Top.at = "loop"
  /\ LoopCondition(Top)
  /\ LET f == Top
         count == f.iteration_count
         r == Pull(f.D)
         stalled == r.S \subseteq f.processed_vertices
         stall == IF stalled THEN f.stall_count + 1 ELSE 0
         processed == IF stalled THEN f.processed_vertices ELSE f.processed_vertices \cup r.S
         Bi == AdjustBi(graph, State, r.x, r.S)
     IN stack' =
          IF count > MaxIterations
          THEN SetTop([f EXCEPT !.iteration_count = count, !.at = "final"])
          ELSE IF stalled /\ stall > StallLimit
          THEN SetTop([f EXCEPT !.iteration_count = count, !.D = r.d, !.Si = r.S, !.Bi = r.x,
                                !.stall_count = stall, !.at = "final"])
          ELSE Append(SetTop([f EXCEPT !.iteration_count = count, !.D = r.d, !.Si = r.S,
                                       !.Bi = Bi, !.last_Bi = r.x, !.stall_count = stall,
                                       !.processed_vertices = processed, !.at = "call"]),
                      NewFrame(f.l - 1, Bi, r.S))
  /\ UNCHANGED <<pc, n_val, graph, source, d_hat, pred, path_alpha,
                 k_param, t_param, N_vertices, ret, result, D, dOp>>

\* the pull loop without the break of lines 507-509
BMSSPPull_no_stall_break ==
  /\ pc = "running" /\ stack # <<>> /\ Top.at = "loop"
  /\ LoopCondition(Top)
  /\ LET f == Top
         count == f.iteration_count + 1
         r == Pull(f.D)
         stalled == r.S \subseteq f.processed_vertices
         stall == IF stalled THEN f.stall_count + 1 ELSE 0
         processed == IF stalled THEN f.processed_vertices ELSE f.processed_vertices \cup r.S
         Bi == AdjustBi(graph, State, r.x, r.S)
     IN stack' =
          IF count > MaxIterations
          THEN SetTop([f EXCEPT !.iteration_count = count, !.at = "final"])
          ELSE IF FALSE
          THEN SetTop([f EXCEPT !.iteration_count = count, !.D = r.d, !.Si = r.S, !.Bi = r.x,
                                !.stall_count = stall, !.at = "final"])
          ELSE Append(SetTop([f EXCEPT !.iteration_count = count, !.D = r.d, !.Si = r.S,
                                       !.Bi = Bi, !.last_Bi = r.x, !.stall_count = stall,
                                       !.processed_vertices = processed, !.at = "call"]),
                      NewFrame(f.l - 1, Bi, r.S))
  /\ UNCHANGED <<pc, n_val, graph, source, d_hat, pred, path_alpha,
                 k_param, t_param, N_vertices, ret, result, D, dOp>>

\* lines 493-533: one pass from the loop test to the recursive call (or a break)
BMSSPPull ==
  /\ pc = "running" /\ stack # <<>> /\ Top.at = "loop"
  /\ LoopCondition(Top)
  /\ LET f == Top
         count == f.iteration_count + 1
         r == Pull(f.D)
         stalled == r.S \subseteq f.processed_vertices
         stall == IF stalled THEN f.stall_count + 1 ELSE 0
         processed == IF stalled THEN f.processed_vertices ELSE f.processed_vertices \cup r.S
         Bi == AdjustBi(graph, State, r.x, r.S)
     IN stack' =
          IF count > MaxIterations
          THEN SetTop([f EXCEPT !.iteration_count = count, !.at = "final"])
          ELSE IF stalled /\ stall > StallLimit
          THEN SetTop([f EXCEPT !.iteration_count = count, !.D = r.d, !.Si = r.S, !.Bi = r.x,
                                !.stall_count = stall, !.at = "final"])
          ELSE Append(SetTop([f EXCEPT !.iteration_count = count, !.D = r.d, !.Si = r.S,
                                       !.Bi = Bi, !.last_Bi = r.x, !.stall_count = stall,
                                       !.processed_vertices = processed,
                                       !.stalled_from = IF stall = 1
                                                        THEN [U |-> f.current_U, d |-> d_hat]
                                                        ELSE f.stalled_from,
                                       !.at = "call"]),
                      NewFrame(f.l - 1, Bi, r.S))
  /\ UNCHANGED <<pc, n_val, graph, source, d_hat, pred, path_alpha,
                 k_param, t_param, N_vertices, ret, result, D, dOp>>

\* lines 533-597: the recursive call returned ret
BMSSPAfterCall ==
  /\ pc = "running" /\ stack # <<>> /\ Top.at = "after"
  /\ LET f == Top
         B_prime_i == ret.B
         Ui == ret.U
         r == BMSSPRelax(graph, f.B, f.Bi, B_prime_i, SetToSeq(Ui), 1,
                         [st |-> State, D |-> f.D, K |-> <<>>, err |-> FALSE])
         batch_items_to_add == r.K \o RequeuedSi(r.st, f.Si, f.Bi, B_prime_i)
     IN IF r.err \/ BatchPrependRaises(r.D, batch_items_to_add) THEN Raise
        ELSE /\ d_hat' = r.st.d /\ path_alpha' = r.st.a /\ pred' = r.st.p
             /\ stack' = SetTop([f EXCEPT !.current_U = f.current_U \cup Ui,
                                          !.last_B_prime_i = B_prime_i,
                                          !.D = BatchPrepend(r.D, batch_items_to_add),
                                          !.at = "loop"])
             /\ UNCHANGED <<pc, n_val, graph, source, k_param, t_param, N_vertices, ret, result>>
  /\ UNCHANGED <<D, dOp>>

\* lines 599-615
BMSSPResult(f, st) ==
  LET final_return_B_prime == IF is_empty(f.D) THEN f.B ELSE Min2(f.last_B_prime_i, f.B)
  IN [B |-> final_return_B_prime,
      U |-> f.current_U \cup {x_w \in f.W : Get(st.d, x_w, Inf) < final_return_B_prime}]

BMSSPReturn ==
  /\ pc = "running" /\ stack # <<>>
  /\ (Top.at = "final" \/ (Top.at = "loop" /\ ~LoopCondition(Top)))
  /\ ReturnTo(BMSSPResult(Top, State))
  /\ UNCHANGED <<pc, n_val, graph, source, d_hat, pred, path_alpha,
                 k_param, t_param, N_vertices, result, D, dOp>>

\* the result without the filter of line 673
ResultDistances_unfiltered(d, n) == [v \in 0..(n - 1) |-> d[v]]

\* lines 672-674
ResultDistances(d, n) == [v \in {v \in 0..(n - 1) : d[v] # Inf} |-> d[v]]

SolveReturn ==
  /\ pc = "running" /\ stack = <<>>
  /\ result' = ResultDistances(d_hat, N_vertices)
  /\ pc' = "done"
  /\ UNCHANGED <<n_val, graph, source, d_hat, pred, path_alpha,
                 k_param, t_param, N_vertices, stack, ret, D, dOp>>


(***************************************************************************)
(* Reference Dijkstra (compare_algorithms.py)                              *)
(***************************************************************************)
RECURSIVE DijkstraRelax(_, _, _, _, _, _)
\* the for loop over graph[u]
DijkstraRelax(g, u, d, nbrs, i, dist) ==
  IF i > Len(nbrs) THEN dist
  ELSE LET v == nbrs[i]
           new_dist == d + g[<<u, v>>]
       IN DijkstraRelax(g, u, d, nbrs, i + 1,
            IF new_dist < Get(dist, v, Inf) THEN (v :> new_dist) @@ dist ELSE dist)

RECURSIVE DijkstraLoop(_, _, _)
\* the while loop: the heap holds, for every vertex not yet visited that has
\* a distance, an entry with that distance; the smallest (d, u) is popped
DijkstraLoop(g, dist, visited) ==
  LET open == (DOMAIN dist) \ visited
  IN IF open = {} THEN dist
     ELSE LET u == CHOOSE x \in open : \A y \in open \ {x} :
                     dist[x] < dist[y] \/ (dist[x] = dist[y] /\ x < y)
          IN DijkstraLoop(g, DijkstraRelax(g, u, dist[u], Nbrs(g, u), 1, dist),
                          visited \cup {u})

\* dijkstra(n, edges, source)[0]: vertex -> distance, for the reached vertices
dijkstra(g, s) == DijkstraLoop(g, (s :> 0), {})

(***************************************************************************)
(* The inputs of solve and the specification of one solve                  *)
(***************************************************************************)
\* the largest vertex count of a generated graph
MaxN == 4
\* the largest number of edges of a generated graph
MaxEdges == 4
\* the edge weights 0.0, 1.0, 2.0 of a generated graph
Weights == {0, One, 2 * One}

Vertices(n) == 0..(n - 1)

\* the generated graphs are searched from vertex 0 (as every run in the
\* repository is) and have no edge into it
Pairs(n) == {e \in Vertices(n) \X Vertices(n) : e[1] # e[2] /\ e[2] # 0}

\* the graphs on n vertices with at most MaxEdges edges
Graphs(n) ==
  UNION {[E -> Weights] : E \in {E \in SUBSET Pairs(n) : Cardinality(E) <= MaxEdges}}

\* the three test cases of compare_algorithms.py (n, edges), all run from 0
TestCase1 ==
  [n |-> 4, g |-> (<<0, 1>> :> One) @@ (<<0, 2>> :> 4 * One) @@ (<<1, 2>> :> 2 * One)
                    @@ (<<1, 3>> :> 5 * One) @@ (<<2, 3>> :> One)]
TestCase2 ==
  [n |-> 5, g |-> (<<0, 1>> :> One) @@ (<<1, 2>> :> 2 * One) @@ (<<3, 4>> :> One)]
TestCase3 ==
  [n |-> 5, g |-> (<<0, 1>> :> One) @@ (<<1, 2>> :> One) @@ (<<2, 3>> :> One)
                    @@ (<<3, 4>> :> One)]
TestCases == {TestCase1, TestCase2, TestCase3}

IdleD == NewD(1, Inf)
IdleOp == [op |-> "none", x |-> 0, S |-> {}]

\* the module as loaded: empty dicts, zero parameters, and the arguments of
\* the call of solve that is about to be made
Init ==
  /\ pc = "idle"
  /\ \/ /\ n_val \in 2..MaxN
        /\ graph \in Graphs(n_val)
     \/ \E tc \in TestCases : n_val = tc.n /\ graph = tc.g
  /\ source = 0
  /\ d_hat = EmptyFn /\ pred = EmptyFn /\ path_alpha = EmptyFn
  /\ k_param = 0 /\ t_param = 0 /\ N_vertices = 0
  /\ stack = <<>>
  /\ ret = [B |-> 0, U |-> {}]
  /\ result = EmptyFn
  /\ D = IdleD /\ dOp = IdleOp

Next ==
  \/ SolveStart
  \/ BMSSPEnter
  \/ BaseCaseStep
  \/ BaseCaseReturn
  \/ FindPivotsRound
  \/ FindPivotsFinish
  \/ BMSSPInit
  \/ BMSSPPull
  \/ BMSSPAfterCall
  \/ BMSSPReturn
  \/ SolveReturn

Spec == Init /\ [][Next]_vars

\* the runs of the __main__ block of compare_algorithms.py
TestInit == Init /\ \E tc \in TestCases : n_val = tc.n /\ graph = tc.g

TestSpec == TestInit /\ [][Next]_vars

(***************************************************************************)
(* A frontier driven directly: any sequence of Insert, BatchPrepend, Pull  *)
(***************************************************************************)
\* the keys are 0..MaxKey
MaxKey == 1
\* the longest list given to BatchPrepend
MaxBatch == 2
\* the largest capacity M given to the constructor
MaxM == 2
\* the values 0.0, 1.0 and 16384.0
DValues == {0, One, AbsorbFrom}
DAlphas == {0, 1}
DPreds == {0, 1}
\* the bounds B given to the constructor
DBounds == {2 * One, Inf}

DItems == (0..MaxKey) \X DValues \X DAlphas \X DPreds
DItemLists == UNION {[1..len -> DItems] : len \in 0..MaxBatch}

FrontierInit ==
  /\ D \in {NewD(M, B) : M \in 0..MaxM, B \in DBounds}
  /\ dOp = IdleOp
  /\ pc = "idle" /\ n_val = 0 /\ graph = EmptyFn /\ source = 0
  /\ d_hat = EmptyFn /\ pred = EmptyFn /\ path_alpha = EmptyFn
  /\ k_param = 0 /\ t_param = 0 /\ N_vertices = 0
  /\ stack = <<>> /\ ret = [B |-> 0, U |-> {}] /\ result = EmptyFn

DInsert ==
  \E it \in DItems :
    /\ D' = Insert(D, it[1], it[2], it[3], it[4])
    /\ dOp' = [IdleOp EXCEPT !.op = "Insert"]
    /\ UNCHANGED solveVars

DBatchPrepend ==
  \E items \in DItemLists :
    /\ D' = BatchPrepend(D, items)
    /\ dOp' = [IdleOp EXCEPT !.op = "BatchPrepend"]
    /\ UNCHANGED solveVars

DPull ==
  LET r == Pull(D)
  IN /\ D' = r.d
     /\ dOp' = [IdleOp EXCEPT !.op = "Pull", !.x = r.x, !.S = r.S]
     /\ UNCHANGED solveVars

FrontierNext == DInsert \/ DBatchPrepend \/ DPull

FrontierSpec == FrontierInit /\ [][FrontierNext]_vars

(***************************************************************************)
(* Properties of the frontier (FrontierSpec)                               *)
(***************************************************************************)
\* the stored triple (value, path_length, predecessor) of a key that is present
Triple(d, key) ==
  <<d.key_to_value[key], StoredEntry(d, key).alpha, StoredEntry(d, key).pred>>

\* every key with its stored triple
StoredTriples(d) == [key \in DOMAIN d.key_to_value |-> Triple(d, key)]

\* the lexicographic order of triples
LexLess(a, b) ==
  \/ a[1] < b[1]
  \/ a[1] = b[1] /\ a[2] < b[2]
  \/ a[1] = b[1] /\ a[2] = b[2] /\ a[3] < b[3]

LexMin(T) == CHOOSE a \in T : \A b \in T : a = b \/ LexLess(a, b)

\* C5: a Pull, after any sequence of Insert and BatchPrepend (and earlier
\* Pulls), returns keys whose stored values were all <= the returned boundary
\* x, and leaves only keys whose stored values are >= x
C5_PullBoundary ==
  [][dOp'.op = "Pull" =>
       /\ \A key \in dOp'.S : key \in DOMAIN D.key_to_value /\ D.key_to_value[key] <= dOp'.x
       /\ \A key \in DOMAIN D'.key_to_value : D'.key_to_value[key] >= dOp'.x]_vars

\* a Pull returned keys and left others behind
C5_Witness ==
  dOp.op = "Pull" /\ dOp.S # {} /\ ~is_empty(D)

\* C6: Insert adds an absent key with the given triple; for a present key it
\* stores the new triple when that is lexicographically smaller than the
\* stored one and otherwise changes nothing at all; no other key is touched
C6_InsertImproveOnly ==
  \A it \in DItems :
    LET key == it[1]
        new == <<it[2], it[3], it[4]>>
        d2 == Insert(D, it[1], it[2], it[3], it[4])
        others == (DOMAIN D.key_to_value) \ {key}
        stored == /\ DOMAIN d2.key_to_value = (DOMAIN D.key_to_value) \cup {key}
                  /\ Triple(d2, key) = new
                  /\ \A o \in others : Triple(d2, o) = Triple(D, o)
    IN IF key \notin DOMAIN D.key_to_value THEN stored
       ELSE IF LexLess(new, Triple(D, key)) THEN stored
       ELSE d2 = D

\* an Insert left a key stored with a triple that can both be improved and not
C6_Witness ==
  /\ dOp.op = "Insert"
  /\ \E it \in DItems, jt \in DItems :
       /\ it[1] \in DOMAIN D.key_to_value /\ jt[1] = it[1]
       /\ LexLess(<<it[2], it[3], it[4]>>, Triple(D, it[1]))
       /\ LexLess(Triple(D, jt[1]), <<jt[2], jt[3], jt[4]>>)
       /\ Insert(D, it[1], it[2], it[3], it[4]) # D

\* C7: a second Insert of the same key with the identical triple leaves the
\* structure exactly as the first left it (key_to_value, the buckets with
\* their order, and the sorted values), whether the second call follows the
\* first at once or after Inserts and Pulls of other keys
C7_InsertIdempotent ==
  \A it \in DItems :
    LET d1 == Insert(D, it[1], it[2], it[3], it[4])
    IN /\ Insert(d1, it[1], it[2], it[3], it[4]) = d1
       /\ (it[1] \in DOMAIN D.key_to_value /\ Triple(D, it[1]) = <<it[2], it[3], it[4]>>)
            => d1 = D

\* an Insert left a bucket of two keys, so that storing a key again would show
C7_Witness ==
  /\ dOp.op = "Insert"
  /\ \E v \in DOMAIN D.value_to_keys : Len(D.value_to_keys[v]) >= 2

Bijections(n) == {p \in [1..n -> 1..n] : \A i, j \in 1..n : p[i] = p[j] => i = j}

\* the triples offered for a key by a list of items
Offered(items, key) ==
  {<<items[i][2], items[i][3], items[i][4]>> : i \in {j \in 1..Len(items) : items[j][1] = key}}

\* C8: BatchPrepend stores, for every key, the lexicographic minimum of the
\* key's previous triple and the triples the items offer for it, whatever
\* the order of the items
C8_BatchPrependOrderFree ==
  \A items \in DItemLists :
    LET d2 == BatchPrepend(D, items)
        keys == (DOMAIN D.key_to_value) \cup {items[i][1] : i \in 1..Len(items)}
    IN /\ DOMAIN d2.key_to_value = keys
       /\ \A key \in keys :
            Triple(d2, key) =
              LexMin(Offered(items, key) \cup
                     (IF key \in DOMAIN D.key_to_value THEN {Triple(D, key)} ELSE {}))
       /\ \A p \in Bijections(Len(items)) :
            StoredTriples(BatchPrepend(D, [i \in 1..Len(items) |-> items[p[i]]]))
              = StoredTriples(d2)

\* a BatchPrepend left two keys stored, neither with the smallest triple
C8_Witness ==
  /\ dOp.op = "BatchPrepend"
  /\ Cardinality(DOMAIN D.key_to_value) >= 2
  /\ \A key \in DOMAIN D.key_to_value : LexLess(<<0, 0, 0>>, Triple(D, key))

(***************************************************************************)
(* Properties of one solve (Spec)                                          *)
(***************************************************************************)
\* the reference distances of the run's graph and source
Reference == dijkstra(graph, source)

\* the distance the result gives a vertex: +infinity when it is absent
ResultOf(v) == Get(result, v, Inf)

RECURSIVE ReachFrom(_, _)
\* the vertices a directed path leads to from a vertex of R
ReachFrom(g, R) ==
  LET R2 == R \cup {e[2] : e \in {e \in DOMAIN g : e[1] \in R}}
  IN IF R2 = R THEN R ELSE ReachFrom(g, R2)

\* C1: every vertex of the returned map has the distance the reference
\* Dijkstra gives it (the distances are sums of the weights, so a difference
\* within 1e-9 is equality); vertices may be missing
C1_NoWrongDistance ==
  pc = "done" =>
    \A v \in DOMAIN result : v \in DOMAIN Reference /\ result[v] = Reference[v]

\* C2: the returned map is the reference map: every reachable vertex present
\* with its shortest distance, every unreachable vertex absent
C2_AgreesWithDijkstra ==
  pc = "done" => result = Reference

\* the position of a frame in its call, counted down
FramePhase(f) ==
  CASE f.at = "enter" -> 5
    [] f.at \in {"base", "pivots"} -> 4
    [] f.at = "init" -> 3
    [] f.at \in {"loop", "call", "after"} -> 2
    [] OTHER -> 1

\* what a frame's current loop has left: the heap loop of BaseCase pops an
\* entry or completes a vertex, FindPivots counts its rounds, the pull loop
\* counts its iterations up to the cap
FrameRank(f) ==
  CASE f.at = "base" -> <<FramePhase(f), k_param + 1 - Cardinality(f.U0), Cardinality(f.H)>>
    [] f.at = "pivots" -> <<FramePhase(f), k_param - f.i, 0>>
    [] f.at \in {"loop", "call", "after"} ->
         <<FramePhase(f), MaxIterations + 1 - f.iteration_count,
           CASE f.at = "call" -> 2 [] f.at = "after" -> 1 [] OTHER -> 0>>
    [] OTHER -> <<FramePhase(f), 0, 0>>

\* a is below b in the lexicographic order of triples of naturals
RankLess(a, b) ==
  \/ a[1] < b[1]
  \/ a[1] = b[1] /\ a[2] < b[2]
  \/ a[1] = b[1] /\ a[2] = b[2] /\ a[3] < b[3]

RECURSIVE StackLess(_, _)
\* the frames of s are below the frames of t, compared from the outermost
\* frame inwards (a stack that ends where the other goes on is below it)
StackLess(s, t) ==
  IF t = <<>> THEN FALSE
  ELSE IF s = <<>> THEN TRUE
  ELSE LET a == FrameRank(Head(s))
           b == FrameRank(Head(t))
       IN IF a = b THEN StackLess(Tail(s), Tail(t)) ELSE RankLess(a, b)

\* the position of the call of solve, counted down
PcRank(p) == CASE p = "idle" -> 3 [] p = "running" -> 2 [] p = "done" -> 1 [] OTHER -> 0

\* the step goes down in the order of (position of solve, frames of the stack)
RankDecreases ==
  \/ PcRank(pc') < PcRank(pc)
  \/ PcRank(pc') = PcRank(pc) /\ StackLess(stack', stack)

\* the ranks are naturals and every call is at a level >= 0 below its
\* caller's, so the calls nest no deeper than l_max + 1 and the order is
\* well-founded
RankWellFounded ==
  /\ Len(stack) <= LMax(n_val) + 1
  /\ \A i \in 1..Len(stack) :
       /\ stack[i].l >= 0
       /\ i > 1 => stack[i].l < stack[i - 1].l
       /\ FrameRank(stack[i])[2] >= 0

\* C3: solve terminates: every step of a run (an iteration of the pull loop,
\* of the heap loop of BaseCase, a round of FindPivots, a call, a return)
\* takes the state to a strictly smaller rank in a well-founded order
C3_Terminates ==
  [][RankDecreases /\ RankWellFounded']_vars

\* a run with a zero-weight cycle among vertices the source does not reach
\* returned, after a pull loop that made more than one iteration
C3_Witness ==
  /\ pc = "done"
  /\ \E u \in Vertices(n_val), v \in Vertices(n_val) :
       /\ <<u, v>> \in DOMAIN graph /\ <<v, u>> \in DOMAIN graph
       /\ graph[<<u, v>>] = 0 /\ graph[<<v, u>>] = 0
       /\ u \notin ReachFrom(graph, {source})
  /\ \E w \in Vertices(n_val) : <<source, w>> \in DOMAIN graph /\ graph[<<source, w>>] = 0

\* C4: at the return every returned distance is >= 0 and no edge whose tail
\* has a finite distance can still be relaxed (an absent head is +infinity)
C4_EdgesRelaxed ==
  pc = "done" =>
    /\ \A v \in DOMAIN result : result[v] >= 0
    /\ \A e \in DOMAIN graph :
         ResultOf(e[1]) < Inf => ResultOf(e[2]) <= FAdd(ResultOf(e[1]), graph[e])

\* C9: the returned map holds only vertices of 0..n-1, each with a finite
\* distance and each reachable from the source by a directed path
C9_OnlyReachable ==
  pc = "done" =>
    \A v \in DOMAIN result :
      /\ v \in Vertices(n_val)
      /\ result[v] < Inf
      /\ v \in ReachFrom(graph, {source})

\* a run returned on a graph with edges among vertices the source does not reach
C9_Witness ==
  /\ pc = "done"
  /\ \E e \in DOMAIN graph : e[1] \notin ReachFrom(graph, {source})
  /\ Cardinality(DOMAIN result) >= 2

\* C10: the first test case of compare_algorithms.py returns exactly
\* {0: 0.0, 1: 1.0, 2: 3.0, 3: 4.0}
C10_TestCase1 ==
  (pc = "done" /\ n_val = TestCase1.n /\ graph = TestCase1.g /\ source = 0) =>
    result = (0 :> 0) @@ (1 :> One) @@ (2 :> 3 * One) @@ (3 :> 4 * One)

\* the run of the first test case returned
C10_Witness ==
  pc = "done" /\ n_val = TestCase1.n /\ graph = TestCase1.g /\ source = 0

\* C11: the distance estimates start at +infinity (0.0 for the source) and no
\* step of the run (an iteration of BaseCase, a round of FindPivots, the
\* relaxation of BMSSP) leaves a vertex with a larger estimate than before
C11_DistanceNonIncreasing ==
  [][/\ pc = "idle" =>
          \A v \in Vertices(n_val) : d_hat'[v] = IF v = source THEN 0 ELSE Inf
     /\ pc = "running" =>
          \A v \in DOMAIN d_hat : v \in DOMAIN d_hat' /\ d_hat'[v] <= d_hat[v]]_vars

\* a run lowered the estimate of a vertex below the weight of its edge from
\* the source, the first estimate it was given
C11_Witness ==
  /\ pc = "done"
  /\ \E e \in DOMAIN graph : e[1] = source /\ d_hat[e[2]] < graph[e]

\* a call at level 1 has just got the result of the BaseCase call it made
BaseCaseReturned ==
  pc = "running" /\ stack # <<>> /\ Top.at = "after" /\ Top.l = 1

\* C12: whatever the bound and the source set, the completed set BaseCase
\* returns holds at most k vertices
C12_BaseCaseAtMostK ==
  BaseCaseReturned => Cardinality(ret.U) <= k_param

\* BaseCase was given more than k sources, found k + 1 vertices and returned
\* k of them under a bound it lowered
C12_Witness ==
  /\ BaseCaseReturned
  /\ Cardinality(Top.Si) > k_param
  /\ Cardinality(ret.U) = k_param
  /\ ret.B < Top.Bi

\* the cap of the pull loop as the specification gives it: max(1000, 10 n)
IterationCap == Max2(MinMaxIterations, IterationsPerVertex * n_val)

\* the frame on top of the stack is at the head of its pull loop and goes on
AtLoopHead ==
  pc = "running" /\ stack # <<>> /\ Top.at = "loop" /\ LoopCondition(Top)

\* C13: a frame at a level l > 0 makes at most max(1000, 10 n) pulls: every
\* pass of its loop adds one to iteration_count, a pass pulls (changes the
\* frame's frontier) only while the count is within the cap, a pass beyond
\* the cap ends the loop, and no frame's count is ever above the cap plus one
C13_IterationCap ==
  [][/\ AtLoopHead =>
          LET f == Top
              g == stack'[Len(stack)]
          IN /\ f.l > 0
             /\ g.iteration_count = f.iteration_count + 1
             /\ g.D # f.D => g.iteration_count <= IterationCap
             /\ g.iteration_count > IterationCap => g.at = "final"
     /\ ~AtLoopHead =>
          \A i \in 1..Len(stack) :
            i <= Len(stack') => stack'[i].iteration_count = stack[i].iteration_count
     /\ \A i \in 1..Len(stack') : stack'[i].iteration_count <= IterationCap + 1]_vars

\* a frame made more pulls than the graph has vertices and left its loop
C13_Witness ==
  /\ pc = "running" /\ stack # <<>>
  /\ Top.l > 0 /\ Top.at = "final"
  /\ Top.iteration_count > n_val

\* C14: a pull that returns only vertices the frame pulled before counts as a
\* stall, a pull with a new vertex ends the streak, and the sixth stalled pull
\* in a row ends the loop at once, far below the iteration cap: a streak is
\* never longer than six
C14_StallBreak ==
  [][/\ (AtLoopHead /\ Top.iteration_count < MaxIterations) =>
          LET f == Top
              g == stack'[Len(stack)]
              r == Pull(f.D)
          IN IF r.S \subseteq f.processed_vertices
             THEN /\ g.stall_count = f.stall_count + 1
                  /\ IF g.stall_count >= 6
                     THEN g.at = "final" /\ Len(stack') = Len(stack)
                     ELSE g.at = "call" /\ Len(stack') = Len(stack) + 1
             ELSE /\ g.stall_count = 0
                  /\ g.processed_vertices = f.processed_vertices \cup r.S
                  /\ g.at = "call"
     /\ \A i \in 1..Len(stack') : stack'[i].stall_count <= 6]_vars

\* a loop was ended by its sixth stalled pull in a row, long before the cap
C14_Witness ==
  /\ pc = "running" /\ stack # <<>>
  /\ Top.l > 0 /\ Top.at = "final"
  /\ Top.stall_count = 6
  /\ Top.iteration_count < MinMaxIterations

(***************************************************************************)
(* solve called with input it should reject (InvalidSpec)                  *)
(***************************************************************************)
\* the largest vertex count and edge count of an invalid input
MaxInvalidN == 3
MaxInvalidEdges == 2
\* the weights -1.0, 0.0, 1.0
InvalidWeights == {0 - One, 0, One}

\* the edge has a negative weight or an endpoint outside [0, n)
InvalidEdge(n, e, w) == w < 0 \/ e[1] \notin Vertices(n) \/ e[2] \notin Vertices(n)

\* the graphs over the ids 0..n (n itself is no vertex) with an invalid edge
InvalidGraphs(n) ==
  {g \in UNION {[E -> InvalidWeights] :
                  E \in {E \in SUBSET ((0..n) \X (0..n)) :
                           Cardinality(E) \in 1..MaxInvalidEdges}} :
     \E e \in DOMAIN g : InvalidEdge(n, e, g[e])}

InvalidInit ==
  /\ pc = "idle"
  /\ n_val \in 2..MaxInvalidN
  /\ graph \in InvalidGraphs(n_val)
  /\ source = 0
  /\ d_hat = EmptyFn /\ pred = EmptyFn /\ path_alpha = EmptyFn
  /\ k_param = 0 /\ t_param = 0 /\ N_vertices = 0
  /\ stack = <<>>
  /\ ret = [B |-> 0, U |-> {}]
  /\ result = EmptyFn
  /\ D = IdleD /\ dOp = IdleOp

InvalidSpec == InvalidInit /\ [][Next]_vars

\* C15: solve does not compute a result from an input with a negative weight
\* or with an edge endpoint outside [0, n): it fails instead of returning
C15_RejectsInvalidInput ==
  (\E e \in DOMAIN graph : InvalidEdge(n_val, e, graph[e])) => pc # "done"

\* ---------------------------------------------------------------------
\* solve on graphs of one vertex and more (SmallSpec)
\* ---------------------------------------------------------------------

MaxSmallN == 3

\* the arguments of solve, n from 1 on
SmallInit ==
  /\ pc = "idle"
  /\ n_val \in 1..MaxSmallN
  /\ graph \in Graphs(n_val)
  /\ source = 0
  /\ d_hat = EmptyFn /\ pred = EmptyFn /\ path_alpha = EmptyFn
  /\ k_param = 0 /\ t_param = 0 /\ N_vertices = 0
  /\ stack = <<>>
  /\ ret = [B |-> 0, U |-> {}]
  /\ result = EmptyFn
  /\ D = IdleD /\ dOp = IdleOp

SmallSpec == SmallInit /\ [][Next]_vars

\* max(1, floor(log2(n)^(1/3))) of the n given: j <= log2(n)^(1/3) iff 2^(j^3) <= n
StatedK(n) == Max2(1, SetMax({0} \cup {j \in 1..3 : Pow2(j * j * j) <= n}))

\* max(1, floor(log2(n)^(2/3))) of the n given: 2 from 2^sqrt(8), 3 from 2^sqrt(27)
StatedT(n) == IF n >= 37 THEN 3 ELSE IF n >= 8 THEN 2 ELSE 1

\* ceil(log2(n) / t), and 0 for n <= 1
StatedLMax(n) ==
  IF n <= 1 THEN 0 ELSE SetMin({c \in 0..n : Pow2(c * StatedT(n)) >= n})

\* C16: solve sets k = max(1, floor(log2(n)^(1/3))), t = max(1, floor(log2(n)^(2/3)))
\* and makes its top-level BMSSP call at level ceil(log2(n)/t), which is level 0
\* for n <= 1, so that this call is handled directly by BaseCase
C16_Parameters ==
  pc = "running" =>
    /\ k_param = StatedK(n_val)
    /\ t_param = StatedT(n_val)
    /\ stack # <<>> => stack[1].l = StatedLMax(n_val)

(***************************************************************************)
(* hybrid_sssp.compare_algorithms: solve in a worker, Dijkstra beside it    *)
(* (HybridSpec)                                                            *)
(***************************************************************************)

\* dijkstra_single_source(graph_dict, n, source): the dict dist
dijkstra_single_source(g, n, s) == DijkstraLoop(g, (s :> 0), {})

\* the test graph of the module's __main__ block: (n, edges), run from 0
HybridTestCase ==
  [n |-> 4, g |-> (<<0, 1>> :> One) @@ (<<1, 2>> :> One) @@ (<<2, 3>> :> One)
                    @@ (<<0, 3>> :> 5 * One)]

\* results['hybrid']['distances'] with every vertex taken from SSSP alone
HybridDistances_no_fill(n, sssp_dist, dijkstra_dist, sssp_timed_out) ==
  IF sssp_timed_out THEN dijkstra_dist ELSE sssp_dist

\* results['hybrid']['distances']: Dijkstra's dict when the worker timed out
\* or failed, else the SSSP dict with the missing vertices filled from Dijkstra
HybridDistances(n, sssp_dist, dijkstra_dist, sssp_timed_out) ==
  IF sssp_timed_out
  THEN dijkstra_dist
  ELSE LET missing == (0..(n - 1)) \ DOMAIN sssp_dist
           filled == {v \in missing : v \in DOMAIN dijkstra_dist}
       IN [v \in DOMAIN sssp_dist \cup filled |->
             IF v \in DOMAIN sssp_dist THEN sssp_dist[v] ELSE dijkstra_dist[v]]

\* the dict results, which replaces the worker's answer in result
CompareResults(n, g, s, sssp_dist, sssp_timed_out) ==
  LET dijkstra_dist == dijkstra_single_source(g, n, s)
  IN [dijkstra |-> dijkstra_dist,
      sssp |-> sssp_dist,
      hybrid |-> HybridDistances(n, sssp_dist, dijkstra_dist, sssp_timed_out),
      degraded |-> sssp_timed_out]

\* the worker's globals are gone with its process
WorkerGone ==
  /\ d_hat' = EmptyFn /\ pred' = EmptyFn /\ path_alpha' = EmptyFn
  /\ k_param' = 0 /\ t_param' = 0 /\ N_vertices' = 0
  /\ stack' = <<>>
  /\ ret' = [B |-> 0, U |-> {}]

\* the number of dict entries a pipe holds before a write to it blocks (an
\* operating-system pipe holds 65,536 bytes, the pickled result of about
\* 5,468 vertices; scaled down to the graphs generated here)
PipeCapacity == 3

\* the size of the worker's message, in entries of its 'distances' dict
ItemSize(dist) == Cardinality(DOMAIN dist)

\* line 72: q.put hands the result to the queue's feeder thread
WorkerPut ==
  /\ pc = "done"
  /\ pc' = "put"
  /\ UNCHANGED <<n_val, graph, source, d_hat, pred, path_alpha,
                 k_param, t_param, N_vertices, stack, ret, result, D, dOp>>

\* the feeder thread has written the whole message to the pipe and the worker
\* process exits; the parent, in p.join(30) at line 108, reads nothing yet
WorkerExit ==
  /\ pc = "put" /\ ItemSize(result) <= PipeCapacity
  /\ pc' = "exited"
  /\ UNCHANGED <<n_val, graph, source, d_hat, pred, path_alpha,
                 k_param, t_param, N_vertices, stack, ret, result, D, dOp>>

\* the message does not fit into the pipe: the feeder thread's write waits
\* for a reader, and the worker process, which joins that thread when it
\* exits, stays alive
WorkerBlock ==
  /\ pc = "put" /\ ItemSize(result) > PipeCapacity
  /\ pc' = "blocked"
  /\ UNCHANGED <<n_val, graph, source, d_hat, pred, path_alpha,
                 k_param, t_param, N_vertices, stack, ret, result, D, dOp>>

\* lines 114-125 and 143-152: the worker is still alive at the deadline
\* (wherever it is), or it put an exception on the queue: sssp_dist stays {}
\* and the hybrid degrades
CompareDegraded ==
  /\ pc \in {"idle", "running", "done", "error", "put", "blocked"}
  /\ result' = CompareResults(n_val, graph, source, EmptyFn, TRUE)
  /\ pc' = "compared"
  /\ WorkerGone
  /\ UNCHANGED <<n_val, graph, source, D, dOp>>

\* lines 126-142: the worker has exited before the deadline and q.get_nowait
\* takes its message from the pipe
CompareFilled ==
  /\ pc = "exited"
  /\ result' = CompareResults(n_val, graph, source, result, FALSE)
  /\ pc' = "compared"
  /\ WorkerGone
  /\ UNCHANGED <<n_val, graph, source, D, dOp>>

HybridInit ==
  /\ pc = "idle"
  /\ \/ /\ n_val \in 2..MaxN
        /\ graph \in Graphs(n_val)
     \/ n_val = HybridTestCase.n /\ graph = HybridTestCase.g
  /\ source = 0
  /\ d_hat = EmptyFn /\ pred = EmptyFn /\ path_alpha = EmptyFn
  /\ k_param = 0 /\ t_param = 0 /\ N_vertices = 0
  /\ stack = <<>>
  /\ ret = [B |-> 0, U |-> {}]
  /\ result = EmptyFn
  /\ D = IdleD /\ dOp = IdleOp

HybridNext ==
  \/ SolveStart
  \/ BMSSPEnter
  \/ BaseCaseStep
  \/ BaseCaseReturn
  \/ FindPivotsRound
  \/ FindPivotsFinish
  \/ BMSSPInit
  \/ BMSSPPull
  \/ BMSSPAfterCall
  \/ BMSSPReturn
  \/ SolveReturn
  \/ WorkerPut
  \/ WorkerExit
  \/ WorkerBlock
  \/ CompareDegraded
  \/ CompareFilled

HybridSpec == HybridInit /\ [][HybridNext]_vars

\* C17: the hybrid distances of compare_algorithms cover exactly the vertices
\* that reference Dijkstra reaches; they are Dijkstra's distances, flagged
\* degraded, when the worker timed out or failed, and otherwise every vertex
\* that Dijkstra reaches and the SSSP result lacks has its Dijkstra distance
C17_HybridCoverage ==
  pc = "compared" =>
    /\ DOMAIN result.hybrid = ReachFrom(graph, {source})
    /\ DOMAIN result.hybrid = DOMAIN result.dijkstra
    /\ result.degraded => result.hybrid = result.dijkstra /\ result.sssp = EmptyFn
    /\ ~result.degraded =>
         \A v \in DOMAIN result.dijkstra \ DOMAIN result.sssp :
           result.hybrid[v] = result.dijkstra[v]

C17_Witness ==
  /\ pc = "compared" /\ ~result.degraded
  /\ \E v \in DOMAIN result.dijkstra : v \notin DOMAIN result.sssp
  /\ DOMAIN result.hybrid = DOMAIN result.dijkstra

(***************************************************************************)
(* The relaxation rule at its three sites                                  *)
(***************************************************************************)

\* (distance, path length, predecessor) of v before and after a step
VTriple(v) == <<d_hat[v], path_alpha[v], pred[v]>>
VTripleNext(v) == <<d_hat'[v], path_alpha'[v], pred'[v]>>

\* the candidate (d(u) + w, path_length(u) + 1, u) for v, from u's state dv, av
Candidate(du, au, u, v) == <<FAdd(du, graph[<<u, v>>]), FAdd(au, 1), u>>

\* the step is an iteration of BaseCase's loop that completes the vertex u
BaseCaseCompletes(u) ==
  /\ pc = "running" /\ stack # <<>> /\ Top.at = "base"
  /\ pc' = "running" /\ Len(stack') = Len(stack)
  /\ u \notin Top.U0 /\ stack'[Len(stack)].U0 = Top.U0 \cup {u}

\* BaseCase relaxes the edges of the one vertex it pops: each neighbour v of
\* u changes, and then to the candidate, iff the candidate is the smaller
BaseCaseSite ==
  \A u \in Vertices(n_val) :
    BaseCaseCompletes(u) =>
      LET e == HeapMin(Top.H)
      IN \A v \in Vertices(n_val) :
           <<u, v>> \in DOMAIN graph =>
             LET c == Candidate(e[1], e[2], u, v)
             IN /\ VTripleNext(v) # VTriple(v) <=> LexLess(c, VTriple(v))
                /\ VTripleNext(v) # VTriple(v) => VTripleNext(v) = c

\* FindPivots and BMSSP relax the edges of a set Us of vertices one after the
\* other in one step: no candidate from Us is left smaller than what v holds,
\* and v changes only to a smaller triple, which is a candidate from Us
SetSite(Us) ==
  \A v \in Vertices(n_val) :
    /\ \A u \in Us :
         <<u, v>> \in DOMAIN graph =>
           ~LexLess(Candidate(d_hat[u], path_alpha[u], u, v), VTripleNext(v))
    /\ VTripleNext(v) # VTriple(v) =>
         /\ LexLess(VTripleNext(v), VTriple(v))
         /\ pred'[v] \in Us /\ <<pred'[v], v>> \in DOMAIN graph
         /\ d_hat'[v] <= FAdd(d_hat[pred'[v]], graph[<<pred'[v], v>>])
         /\ d_hat'[v] >= FAdd(d_hat'[pred'[v]], graph[<<pred'[v], v>>])

FindPivotsSite ==
  (pc = "running" /\ stack # <<>> /\ Top.at = "pivots" /\ Top.i < k_param /\ pc' = "running")
    => SetSite(Top.Wi_current_step)

BMSSPSite ==
  (pc = "running" /\ stack # <<>> /\ Top.at = "after" /\ pc' = "running")
    => SetSite(ret.U)

\* C18: in BaseCase, in FindPivots and in BMSSP's relaxation after the
\* recursive call, the update of v via u with weight w is accepted if and only
\* if (d(u) + w, path_length(u) + 1, u) is lexicographically smaller than
\* (d(v), path_length(v), pred(v)): the three sites accept the same updates
C18_SameRuleEverywhere ==
  [][BaseCaseSite /\ FindPivotsSite /\ BMSSPSite]_vars

(***************************************************************************)
(* What the relaxation out of Ui puts into the frame's frontier            *)
(***************************************************************************)

\* the step is the relaxation of a frame after its recursive call returned
RelaxesAfterCall ==
  /\ pc = "running" /\ stack # <<>> /\ Top.at = "after"
  /\ pc' = "running" /\ Len(stack') = Len(stack)

\* v was relaxed in the step
Relaxed(v) == VTripleNext(v) # VTriple(v)

\* the step put v with its resulting triple into the frontier Dn, from Do
AddedToFrontier(Do, Dn, v) ==
  /\ v \in DOMAIN Dn.key_to_value
  /\ Triple(Dn, v) = VTripleNext(v)
  /\ v \in DOMAIN Do.key_to_value => Triple(Do, v) # VTripleNext(v)

\* C19: in an iteration of a frame with bound B, pulled boundary Bi and inner
\* boundary B'i, a neighbour relaxed out of Ui is added to the frame's frontier
\* exactly when its resulting distance is in [Bi, B) or in [B'i, Bi), and not
\* when it is >= B or < B'i
C19_FrontierRanges ==
  [][RelaxesAfterCall =>
       \A v \in Vertices(n_val) :
         Relaxed(v) =>
           (AddedToFrontier(Top.D, stack'[Len(stack)].D, v)
              <=> \/ Top.Bi <= d_hat'[v] /\ d_hat'[v] < Top.B
                  \/ ret.B <= d_hat'[v] /\ d_hat'[v] < Top.Bi)]_vars

(***************************************************************************)
(* The bound a frame returns                                               *)
(***************************************************************************)

\* the step is the return of a frame of level l > 0
FrameReturns ==
  /\ pc = "running" /\ stack # <<>> /\ Top.l > 0
  /\ Top.at = "final" \/ (Top.at = "loop" /\ ~LoopCondition(Top))
  /\ pc' = "running" /\ Len(stack') = Len(stack) - 1

\* the loop ended at its condition with the frontier empty: nothing pulled
\* is left unprocessed
FrontierExhausted == Top.at = "loop" /\ is_empty(Top.D)

\* C20: a frame of level l > 0 returns B exactly when its loop ended because
\* the frontier was exhausted with every pulled batch processed; when the loop
\* ended for another reason (capacity of the completed set, iteration cap,
\* stall break) it returns min(last inner boundary, B)
C20_ReturnedBound ==
  [][FrameReturns =>
       ret'.B = IF FrontierExhausted THEN Top.B
                ELSE Min2(Top.last_B_prime_i, Top.B)]_vars

(***************************************************************************)
(* What BaseCase returns                                                   *)
(***************************************************************************)

\* the step is the return of BaseCase
BaseCaseReturns ==
  /\ pc = "running" /\ stack # <<>> /\ Top.at = "base"
  /\ ~(Top.H # {} /\ Cardinality(Top.U0) < k_param + 1)
  /\ pc' = "running" /\ Len(stack') = Len(stack) - 1

\* x is the (j+1)-th smallest of the completed distances c: j of the
\* vertices are at most x, and x is the least distance of the others
IsNthSmallest(x, c, j) ==
  \E L \in SUBSET DOMAIN c :
    /\ Cardinality(L) = j
    /\ \A v \in L : c[v] <= x
    /\ \E v \in DOMAIN c \ L : c[v] = x
    /\ \A v \in DOMAIN c \ L : c[v] >= x

\* C21: BaseCase returns (B, completed set) unchanged when at most k vertices
\* were completed; with k+1 completed it returns the (k+1)-th smallest completed
\* distance and exactly the completed vertices strictly below it
C21_BaseCaseResult ==
  [][BaseCaseReturns =>
       /\ DOMAIN Top.candidates = Top.U0
       /\ Cardinality(Top.U0) <= k_param + 1
       /\ Cardinality(Top.U0) <= k_param => ret' = [B |-> Top.B, U |-> Top.U0]
       /\ Cardinality(Top.U0) = k_param + 1 =>
            /\ IsNthSmallest(ret'.B, Top.candidates, k_param)
            /\ ret'.U = {v \in Top.U0 : Top.candidates[v] < ret'.B}]_vars

C21_Witness ==
  /\ pc = "running" /\ stack # <<>> /\ Top.at = "after" /\ Top.l = 1
  /\ ret.U # {} /\ ret.U # Top.Si
  /\ \E v \in Top.Si \ ret.U : d_hat[v] = ret.B
  /\ \A v \in ret.U : d_hat[v] < ret.B

(***************************************************************************)
(* What Pull takes and what boundary it gives (FrontierSpec)               *)
(***************************************************************************)

\* the keys stored in a frontier
StoredKeys(d) == DOMAIN d.key_to_value

\* the step is a Pull
PullStep == dOp'.op = "Pull"

\* Pull takes min(M, number of keys) keys, none larger than a key it leaves,
\* and leaves the entry of every other key as it was
PullTakesSmallest ==
  /\ dOp'.S \subseteq StoredKeys(D)
  /\ Cardinality(dOp'.S) = Min2(D.M, Cardinality(StoredKeys(D)))
  /\ StoredKeys(D') = StoredKeys(D) \ dOp'.S
  /\ \A key \in dOp'.S : \A other \in StoredKeys(D') :
       D.key_to_value[key] <= D.key_to_value[other]
  /\ \A other \in StoredKeys(D') : Triple(D', other) = Triple(D, other)

\* the boundary of a Pull that left keys behind, or that found none
PullBoundaryPlain ==
  /\ StoredKeys(D') # {} =>
       dOp'.x = SetMin({D'.key_to_value[key] : key \in StoredKeys(D')})
  /\ StoredKeys(D) = {} => dOp'.x = D.B

\* the largest value a Pull took
MaxPulled == SetMax({D.key_to_value[key] : key \in dOp'.S})

\* C22: Pull removes and returns min(M, number of stored keys) keys with the
\* smallest values and leaves every other entry unchanged; its boundary is the
\* smallest remaining value when keys remain, a value strictly just above the
\* largest pulled value when the pull emptied the structure, and the bound B
\* when the structure was already empty
C22_PullContract ==
  [][PullStep =>
       /\ PullTakesSmallest
       /\ PullBoundaryPlain
       /\ (dOp'.S # {} /\ StoredKeys(D') = {}) =>
            dOp'.x > MaxPulled /\ dOp'.x <= MaxPulled + Eps]_vars

(***************************************************************************)
(* The representation of the frontier (FrontierSpec)                       *)
(***************************************************************************)

\* how often key is listed in a bucket
Occurrences(bucket, key) == Cardinality({i \in 1..Len(bucket) : bucket[i].key = key})

\* C23: after any sequence of Insert, BatchPrepend and Pull every stored key
\* lies in exactly one value bucket, the one of its stored value; no bucket is
\* empty; the list of distinct values is strictly sorted and is the set of the
\* bucket values; is_empty is true exactly when no key is stored
C23_FrontierRepresentation ==
  /\ \A key \in StoredKeys(D) :
       /\ D.key_to_value[key] \in DOMAIN D.value_to_keys
       /\ \A v \in DOMAIN D.value_to_keys :
            Occurrences(D.value_to_keys[v], key) = IF v = D.key_to_value[key] THEN 1 ELSE 0
  /\ \A v \in DOMAIN D.value_to_keys :
       /\ D.value_to_keys[v] # <<>>
       /\ \A i \in 1..Len(D.value_to_keys[v]) : D.value_to_keys[v][i].key \in StoredKeys(D)
  /\ \A i \in 1..(Len(D.values) - 1) : D.values[i] < D.values[i + 1]
  /\ SeqToSet(D.values) = DOMAIN D.value_to_keys
  /\ is_empty(D) <=> StoredKeys(D) = {}
  /\ is_empty(D) <=> D.values = <<>>

\* two keys in two buckets, after a BatchPrepend that moved or added one
C23_Witness ==
  /\ dOp.op = "BatchPrepend"
  /\ Len(D.values) = 2 /\ Cardinality(StoredKeys(D)) = 2

(***************************************************************************)
(* solve on a graph of 256 vertices, where k = 2 (LargeSpec)               *)
(***************************************************************************)

\* the least n with k = 2: log2(256)^(1/3) = 2
LargeN == 256
\* the vertices that have edges: 0..MaxLinked-1; the others are isolated
MaxLinked == 4
MaxLargeEdges == 3
LargeWeights == {0, One}

LargeGraphs ==
  UNION {[E -> LargeWeights] :
           E \in {E \in SUBSET Pairs(MaxLinked) : Cardinality(E) <= MaxLargeEdges}}

LargeInit ==
  /\ pc = "idle"
  /\ n_val = LargeN
  /\ graph \in LargeGraphs
  /\ source = 0
  /\ d_hat = EmptyFn /\ pred = EmptyFn /\ path_alpha = EmptyFn
  /\ k_param = 0 /\ t_param = 0 /\ N_vertices = 0
  /\ stack = <<>>
  /\ ret = [B |-> 0, U |-> {}]
  /\ result = EmptyFn
  /\ D = IdleD /\ dOp = IdleOp

LargeSpec == LargeInit /\ [][Next]_vars


(***************************************************************************)
(* The pivots of FindPivots                                                *)
(***************************************************************************)

\* FindPivots computes its pivots in this step: the k rounds are done
PivotsComputed ==
  /\ pc = "running" /\ stack # <<>> /\ Top.at = "pivots" /\ Top.i >= k_param
  /\ pc' = "running" /\ Len(stack') = Len(stack)

\* FindPivots returns in this step, early or after the k rounds
FindPivotsReturns ==
  /\ pc = "running" /\ stack # <<>> /\ Top.at = "pivots"
  /\ pc' = "running" /\ Len(stack') = Len(stack) /\ stack'[Len(stack)].at = "init"

RECURSIVE Subtree(_, _, _)
\* the vertices of the forest over W below the roots R: the edge (pred(v), v)
\* is kept for v in W when pred(v) is in S or W
Subtree(S, W, R) ==
  LET R2 == R \cup {v \in W : pred[v] # NoneVal /\ pred[v] \in R /\ pred[v] \in S \cup W}
  IN IF R2 = R THEN R ELSE Subtree(S, W, R2)

\* C24: when FindPivots does not exit early, a source s of S is a pivot if and
\* only if its subtree in the predecessor forest over W, counted on its own,
\* has at least k vertices; the pivots are always a subset of S, and S of W
C24_PivotRule ==
  [][/\ PivotsComputed =>
          stack'[Len(stack)].P =
            {s \in Top.S : Cardinality(Subtree(Top.S, Top.W, {s})) >= k_param}
     /\ FindPivotsReturns =>
          /\ stack'[Len(stack)].P \subseteq Top.S
          /\ Top.S \subseteq stack'[Len(stack)].W]_vars

\* pivots were computed with k = 2 from two sources, one below the other in
\* the forest: one is a pivot with a subtree shared with the other, one is not
C24_Witness ==
  /\ pc = "running" /\ stack # <<>> /\ Top.at = "init" /\ Top.i >= k_param /\ k_param >= 2
  /\ Top.P # {} /\ Top.P # Top.S
  /\ \E s1 \in Top.P : \E s2 \in Top.P \ {s1} : s2 \in Subtree(Top.S, Top.W, {s1})

(***************************************************************************)
(* The rounds of FindPivots                                                *)
(***************************************************************************)

\* the step is a relaxation round of FindPivots
RoundStep ==
  /\ pc = "running" /\ stack # <<>> /\ Top.at = "pivots" /\ Top.i < k_param
  /\ pc' = "running" /\ Len(stack') = Len(stack)

\* the vertices a round from Us admits: the out-neighbours within the bound
Admitted(Us, B) ==
  {v \in Vertices(n_val) :
     /\ \E u \in Us : <<u, v>> \in DOMAIN graph
     /\ WithinBound(d_hat'[v], B)}

\* C25: round i of FindPivots relaxes exactly the outgoing edges of the
\* vertices admitted in the round before (S at first); FindPivots returns
\* (S, W) right after the first round that ends with |W| > k * |S|, and
\* otherwise makes exactly k rounds before it computes the pivots
C25_Rounds ==
  [][/\ (pc = "running" /\ stack # <<>> /\ Top.at = "pivots") =>
          /\ Top.i <= k_param
          /\ Top.i = 0 => Top.Wi_current_step = Top.S /\ Top.W = Top.S
          /\ Cardinality(Top.W) <= k_param * Cardinality(Top.S)
     /\ RoundStep =>
          LET g == stack'[Len(stack)]
          IN /\ SetSite(Top.Wi_current_step)
             /\ g.Wi_current_step = Admitted(Top.Wi_current_step, Top.B)
             /\ g.W = Top.W \cup g.Wi_current_step
             /\ IF Cardinality(g.W) > k_param * Cardinality(Top.S)
                THEN g.at = "init" /\ g.P = Top.S
                ELSE g.at = "pivots" /\ g.i = Top.i + 1
     /\ PivotsComputed =>
          /\ Top.i = k_param
          /\ stack'[Len(stack)].W = Top.W
          /\ \A v \in Vertices(n_val) : ~Relaxed(v)]_vars

\* k = 2 rounds were made, the second from vertices the first admitted
C25_Witness ==
  /\ pc = "running" /\ stack # <<>> /\ Top.at = "pivots"
  /\ k_param = 2 /\ Top.i = 2
  /\ Top.W # Top.S /\ Top.Wi_current_step # {}

(***************************************************************************)
(* The capacity of a frame's frontier                                      *)
(***************************************************************************)

\* the frame has created its frontier
HasFrontier(f) == f.l > 0 /\ f.at \in {"loop", "call", "after", "final"}

\* C26: a frame of level l > 0 creates its frontier with capacity exactly
\* M = max(1, 2^((l-1)*t)) and bound B, so that every pull hands at most
\* 2^((l-1)*t) vertices to the recursive call at level l-1
C26_FrontierCapacity ==
  \A i \in 1..Len(stack) :
    HasFrontier(stack[i]) =>
      /\ stack[i].D.M = Max2(1, Pow2((stack[i].l - 1) * t_param))
      /\ stack[i].D.B = stack[i].B
      /\ Cardinality(stack[i].Si) <= Pow2((stack[i].l - 1) * t_param)

(***************************************************************************)
(* Distances are weights of paths                                          *)
(***************************************************************************)

RECURSIVE SimplePaths(_, _, _)
\* the directed paths of g from s without a repeated vertex, each as
\* <<end, weight, vertices>>; P is the set found so far
SimplePaths(g, s, P) ==
  LET ext == {x \in (DOMAIN g) \X P : x[2][1] = x[1][1] /\ x[1][2] \notin x[2][3]}
      P2 == P \cup {<<x[1][2], x[2][2] + g[x[1]], x[2][3] \cup {x[1][2]}>> : x \in ext}
  IN IF P2 = P THEN P ELSE SimplePaths(g, s, P2)

PathsFromSource == SimplePaths(graph, source, {<<source, 0, {source}>>})

\* C27: at every point of a solve on non-negative weights each vertex's
\* distance is +infinity or the weight of an actual directed path from the
\* source to it whose last edge is (pred(v), v), so never below the true
\* shortest distance; the source's distance stays 0
C27_DistancesArePaths ==
  pc \in {"running", "done"} =>
    LET paths == PathsFromSource
        shortest == Reference
    IN /\ d_hat[source] = 0
       /\ \A v \in Vertices(n_val) \ {source} :
            d_hat[v] # Inf =>
              /\ pred[v] # NoneVal /\ <<pred[v], v>> \in DOMAIN graph
              /\ \E p \in paths :
                   /\ p[1] = pred[v] /\ v \notin p[3]
                   /\ d_hat[v] = p[2] + graph[<<pred[v], v>>]
              /\ v \in DOMAIN shortest /\ d_hat[v] >= shortest[v]

\* a vertex holds the weight of a path that is not a shortest one
C27_Witness ==
  /\ pc = "done"
  /\ \E v \in Vertices(n_val) :
       d_hat[v] # Inf /\ v \in DOMAIN Reference /\ d_hat[v] > Reference[v]

(***************************************************************************)
(* The stall detector and forward progress                                 *)
(***************************************************************************)
\* the frame on top has just left its loop at line 507 (stall_count > 5)
StallBreak ==
  /\ pc = "running" /\ stack # <<>>
  /\ Top.l > 0 /\ Top.at = "final" /\ Top.stall_count > StallLimit

\* since the pull that started the counted run of stalled pulls, the frame's
\* completed set has grown or some vertex's distance has decreased
ProgressSinceStall(f) ==
  \/ f.current_U # f.stalled_from.U
  \/ \E v \in Vertices(n_val) : Get(d_hat, v, Inf) < Get(f.stalled_from.d, v, Inf)

\* C28: the stall detector breaks a frame's loop only when, during the run of
\* iterations it counted, the frame's completed set did not grow and no
\* vertex's distance decreased
C28_StallBreakWithoutProgress == StallBreak => ~ProgressSinceStall(Top)

\* a stall break after a counted run in which nothing moved
C28_Witness == StallBreak /\ ~ProgressSinceStall(Top)

(***************************************************************************)
(* solve called again in the same process (AgainSpec)                      *)
(***************************************************************************)
\* a further call of solve after an earlier one has returned or raised: the
\* module's globals are as that call left them, the caller still holds the
\* map it got from it
SolveAgain ==
  /\ pc \in {"done", "error"}
  /\ \E n \in 1..MaxSmallN : \E g \in Graphs(n) :
       /\ n_val' = n /\ graph' = g /\ source' = 0
       /\ SolveSetUp(n, 0)
  /\ UNCHANGED <<ret, result, D, dOp>>

AgainNext ==
  \/ SolveStart
  \/ BMSSPEnter
  \/ BaseCaseStep
  \/ BaseCaseReturn
  \/ FindPivotsRound
  \/ FindPivotsFinish
  \/ BMSSPInit
  \/ BMSSPPull
  \/ BMSSPAfterCall
  \/ BMSSPReturn
  \/ SolveReturn
  \/ SolveAgain

AgainSpec == SmallInit /\ [][AgainNext]_vars

\* what the first call of solve in a process sets for the arguments n and s
FirstCall(n, s) ==
  [d_hat |-> (s :> 0) @@ [v \in 0..(n - 1) |-> Inf],
   path_alpha |-> (s :> 0) @@ [v \in 0..(n - 1) |-> Inf],
   pred |-> [v \in 0..(n - 1) |-> NoneVal],
   k_param |-> KParam(n), t_param |-> TParam(n), N_vertices |-> n,
   stack |-> <<NewFrame(LMax(n), Inf, {s})>>]

\* the state in which BMSSP is called
StartedAs ==
  [d_hat |-> d_hat, path_alpha |-> path_alpha, pred |-> pred,
   k_param |-> k_param, t_param |-> t_param, N_vertices |-> N_vertices,
   stack |-> stack]

\* C29: a call of solve made after an earlier call starts BMSSP in the state
\* in which a first call with the same arguments starts it (distances,
\* predecessors, path lengths, k, t, n and the frame of the top call), so the
\* map it returns depends on its arguments only
C29_SolveIsRepeatable ==
  [][(pc \in {"done", "error"} /\ pc' = "running") =>
       (StartedAs' = FirstCall(n_val', source'))]_vars

\* a later call is running on fewer vertices than the call before it, whose
\* map the caller still holds
C29_Witness ==
  /\ pc = "running" /\ stack # <<>>
  /\ \E v \in DOMAIN result : v >= N_vertices

(***************************************************************************)
(* The worker's result and the parent's join (HybridSpec)                  *)
(***************************************************************************)
\* the worker has put its result and has done all it can without the parent:
\* it has exited, or it waits for the parent to read the queue
ResultWasPut == pc \in {"exited", "blocked"}

\* C30: once the worker has put the result of a finished solve on the queue,
\* compare_algorithms reports the SSSP run with that result and not as timed
\* out: joining before draining the queue loses no finished run
C30_PutResultIsReported ==
  [][(ResultWasPut /\ pc' = "compared") =>
       (~result'.degraded /\ result'.sssp = result)]_vars

\* a result that fitted into the pipe has been received and reported
C30_Witness ==
  /\ pc = "compared" /\ ~result.degraded
  /\ ItemSize(result.sssp) = PipeCapacity

====
